---- MODULE Spec2Model ----
(***************************************************************************)
(* browser-recall-weekly: the chunking, per-chunk analysis, consolidation  *)
(* and markdown output of the history analysis pipeline                    *)
(* (src/src/history_analyzer.py), its completion gateway                   *)
(* (src/src/llm_client.py) and the extraction of category and topic counts *)
(* from the output (src/src/data_extractor.py).                            *)
(***************************************************************************)
EXTENDS Integers, Sequences, FiniteSets, TLC

(***************************************************************************)
(* Bounds of the model.                                                    *)
(***************************************************************************)
MaxLen == 6
MaxChunkLen == 3
MaxOverlap == 4

Alphabet == {"a", "b"}

Min(a, b) == IF a < b THEN a ELSE b

Last(s) == s[Len(s)]

\* All sequences over S of length 0..n.
SeqsUpTo(S, n) == UNION {[1..k -> S] : k \in 0..n}

\* Python's s[a:b] for 0 <= a, 0 <= b (0-based, end exclusive, clamped).
Slice(s, a, b) == SubSeq(s, a + 1, Min(b, Len(s)))

(***************************************************************************)
(* State.                                                                  *)
(***************************************************************************)
VARIABLES
    pc,                 \* position of analyze_history
    full_content,       \* content of the record being processed
    max_content_length, \* parameter of analyze_history
    chunk_overlap,      \* parameter of analyze_history
    start,              \* loop variable of the chunking loop
    content_chunks,     \* the chunks built so far
    starts,             \* history: the start offset each chunk was cut at
    client,             \* the LLMClient object, NoClient before construction
    gw_pc,              \* position of the gateway call: idle, posted, returned, raised
    gw_entry,           \* the method called: llm_call or analyze_record
    gw_format,          \* response_format of the call
    gw_response,        \* what the backend did with the request of the call
    gw_result,          \* the value the call returned
    gw_messages,        \* the content of the user message of the call
    call_requests,      \* history: backend requests issued by the current call
    calls,              \* history: gateway calls made so far
    db_exists,          \* os.path.exists(db_path)
    db_rows,            \* the rows the query selects, in order
    prompt_file,        \* the file at prompt_path
    summarization_file, \* the file at SUMMARIZATION_PROMPT_PATH
    prompt_user,        \* content of the user message of the per-chunk template
    summarization_user, \* content of the user message of the summarization template
    history_records,    \* the fetched records, in order
    rec_index,          \* records the loop has gone past
    prompt_has_user,    \* the per-chunk template has a "user" message
    summarization_has_user, \* the summarization template has one
    chunk_index,        \* chunks the chunk loop has gone past
    chunk_descriptions, \* per-chunk descriptions collected
    chunk_categories,   \* per-chunk categories collected
    chunk_topics,       \* per-chunk topics, flattened
    chunk_calls,        \* history: analyze_record calls made for each chunk
    final_description,  \* the record's result
    final_category,
    final_topics,
    summary_result,     \* what the consolidation call returned, if made
    processed_records_count,
    summary_calls,      \* history: llm_call calls made to consolidate the record
    md_exists,          \* os.path.exists(markdown_filename)
    md_file,            \* the text of the markdown output file
    written,            \* history: the analyses written to md_file, in order
    described,          \* history: the records that ended with a description
    category_counter,   \* extract_data_from_analysis: category -> count
    topic_counter,      \* extract_data_from_analysis: topic -> count
    original_topics,    \* generate_html_report: data["topics"], in file order
    report_topics       \* generate_html_report: `topics`, the merged dict

chunkVars == <<full_content, max_content_length, chunk_overlap, start,
               content_chunks, starts>>

gwVars == <<gw_pc, gw_entry, gw_format, gw_response, gw_result, gw_messages,
            call_requests, calls>>

inputVars == <<db_exists, db_rows, prompt_file, summarization_file,
               prompt_user, summarization_user, prompt_has_user,
               summarization_has_user>>

configVars == <<history_records, inputVars>>

analysisVars == <<chunk_index, chunk_descriptions, chunk_categories,
                  chunk_topics, chunk_calls, summary_calls>>

finalVars == <<final_description, final_category, final_topics,
               summary_result>>

outVars == <<md_exists, md_file, written, described>>

counterVars == <<category_counter, topic_counter>>

recVars == <<rec_index, processed_records_count, outVars, counterVars>>

reportVars == <<original_topics, report_topics>>

pipeVars == <<configVars, analysisVars, finalVars, recVars, reportVars>>

vars == <<pc, chunkVars, client, gwVars, pipeVars>>

(***************************************************************************)
(* Chunking logic, history_analyzer.py 153-170.                            *)
(***************************************************************************)
\* A mutant of NeedsChunking: content of exactly max_length is chunked too.
NeedsChunkingAtLimit(len, maxLength) == len >= maxLength

\* `if len(full_content) > max_content_length`
NeedsChunking(len, maxLength) == len > maxLength

\* A mutant of NextStart: the overlap guard is missing.
NextStartNoGuard(s, end, overlap, maxLength) == end - overlap

\* A mutant of NextStart: the next window starts one past the end.
NextStartGap(s, end, overlap, maxLength) ==
    IF end + 1 - overlap <= s THEN s + maxLength ELSE end + 1 - overlap

\* A mutant of NextStart: the overlap is ignored.
NextStartNoOverlap(s, end, overlap, maxLength) == end

\* next_start = end - chunk_overlap; if next_start <= start: start + max_length
NextStart(s, end, overlap, maxLength) ==
    IF end - overlap <= s THEN s + maxLength ELSE end - overlap

\* The branch on the content's length: either enter the loop with start = 0
\* or take the whole content as the single chunk.
ChunkBegin ==
    /\ pc = "chunk_begin"
    /\ IF NeedsChunking(Len(full_content), max_content_length)
       THEN /\ start' = 0
            /\ pc' = "chunk_loop"
            /\ UNCHANGED <<content_chunks, starts>>
       ELSE /\ content_chunks' = Append(content_chunks, full_content)
            /\ starts' = Append(starts, 0)
            /\ pc' = "chunked"
            /\ UNCHANGED start
    /\ UNCHANGED <<full_content, max_content_length, chunk_overlap>>
    /\ UNCHANGED <<client, gwVars, pipeVars>>

\* One iteration of `while start < len(full_content)`.
ChunkStep ==
    /\ pc = "chunk_loop"
    /\ IF start < Len(full_content)
       THEN LET end == start + max_content_length
                next_start == NextStart(start, end, chunk_overlap,
                                        max_content_length)
            IN /\ content_chunks' =
                      Append(content_chunks, Slice(full_content, start, end))
               /\ starts' = Append(starts, start)
               /\ start' = next_start
               /\ pc' = IF next_start >= Len(full_content)
                        THEN "chunked" ELSE "chunk_loop"
       ELSE /\ pc' = "chunked"
            /\ UNCHANGED <<start, content_chunks, starts>>
    /\ UNCHANGED <<full_content, max_content_length, chunk_overlap>>
    /\ UNCHANGED <<client, gwVars, pipeVars>>

(***************************************************************************)
(* Python values: None, str, list, dict and numbers, tagged by kind.  A    *)
(* str is a sequence of symbols; a symbol is a character or word, or a     *)
(* fragment of JSON text (a literal, or a "key": value member).            *)
(***************************************************************************)
PyNone == [k |-> "none"]
PyStr(s) == [k |-> "str", v |-> s]
PyList(l) == [k |-> "list", v |-> l]
PyDict(d) == [k |-> "dict", v |-> d]
PyNum(n) == [k |-> "num", v |-> n]

\* A local variable that has not been assigned.
Unbound == [k |-> "unbound"]

Sym(c) == [c |-> c]
Ws == Sym(" ")
JsonLit(val) == [c |-> "json-literal", val |-> val]
JsonMember(key, val) == [c |-> "json-member", key |-> key, val |-> val]

\* A str of plain words.
Str(words) == PyStr([i \in 1..Len(words) |-> Sym(words[i])])

\* The text of a sequence of characters.
Chars(word) == [i \in 1..Len(word) |-> Sym(word[i])]

NL == Sym("\n")
Comma == Sym(",")

\* f"{v}": a str is its own text, any other value is its repr.
Format(v) == IF v.k = "str" THEN v.v ELSE <<[c |-> "repr", val |-> v]>>

\* text.replace(old, new) for a placeholder old.
RECURSIVE Replace(_, _, _)
Replace(text, old, new) ==
    IF text = <<>> THEN <<>>
    ELSE (IF Head(text) = Sym(old) THEN new ELSE <<Head(text)>>)
         \o Replace(Tail(text), old, new)

\* bool(v)
Truthy(v) ==
    CASE v.k = "none" -> FALSE
      [] v.k = "str" -> v.v # <<>>
      [] v.k = "list" -> v.v # <<>>
      [] v.k = "dict" -> DOMAIN v.v # {}
      [] v.k = "num" -> v.v # 0

\* x or y
PyOr(x, y) == IF Truthy(x) THEN x ELSE y

\* d.get(key) of a dict d
DictGet(d, key) == IF key \in DOMAIN d.v THEN d.v[key] ELSE PyNone

\* The result of evaluating an expression: a value, or an exception raised.
Value(v) == [exc |-> "none", val |-> v]
Raise(e) == [exc |-> e, val |-> PyNone]

\* str.strip() on the symbols of a str: leading and trailing whitespace goes.
RECURSIVE LStrip(_)
LStrip(s) == IF s # <<>> /\ Head(s) = Ws THEN LStrip(Tail(s)) ELSE s

RECURSIVE RStrip(_)
RStrip(s) ==
    IF s # <<>> /\ Last(s) = Ws THEN RStrip(SubSeq(s, 1, Len(s) - 1)) ELSE s

Strip(s) == RStrip(LStrip(s))

\* The members of a JSON object text, folded into a dict: a later member
\* with the same key replaces an earlier one.
RECURSIVE MembersToDict(_, _)
MembersToDict(ms, acc) ==
    IF ms = <<>> THEN acc
    ELSE LET m == Head(ms)
             keys == DOMAIN acc \cup {m.key}
         IN MembersToDict(Tail(ms),
                [f \in keys |-> IF f = m.key THEN m.val ELSE acc[f]])

\* json.loads(s) of the symbols s of a str: a literal, or an object
\* "{" member ... "}" (whitespace around the text is allowed); anything
\* else is a json.JSONDecodeError.
JsonLoads(s) ==
    LET t == Strip(s)
        inner == SubSeq(t, 2, Len(t) - 1)
    IN IF Len(t) = 1 /\ t[1].c = "json-literal" THEN Value(t[1].val)
       ELSE IF /\ Len(t) >= 2
               /\ t[1] = Sym("{")
               /\ Last(t) = Sym("}")
               /\ \A i \in 1..Len(inner) : inner[i].c = "json-member"
            THEN Value(PyDict(MembersToDict(inner, <<>>)))
            ELSE Raise("JSONDecodeError")

(***************************************************************************)
(* LLMClient.__init__, llm_client.py 10-34.                                *)
(***************************************************************************)
NoClient == [constructed |-> FALSE]

\* url.endswith("/v1")
EndsWithV1(u) ==
    Len(u) >= 2 /\ u[Len(u) - 1] = Sym("/") /\ u[Len(u)] = Sym("v1")

\* url.rstrip('/')
RECURSIVE RStripSlash(_)
RStripSlash(u) ==
    IF u # <<>> /\ Last(u) = Sym("/")
    THEN RStripSlash(SubSeq(u, 1, Len(u) - 1)) ELSE u

\* "api.openai.com" in url
HasOpenAiHost(u) == \E i \in 1..Len(u) : u[i] = Sym("api.openai.com")

\* The base_url after line 29-30: /v1 is appended unless the host is
\* api.openai.com or the url already ends in /v1.
NormalizedBaseUrl(u) ==
    IF ~HasOpenAiHost(u) /\ ~EndsWithV1(u)
    THEN RStripSlash(u) \o <<Sym("/"), Sym("v1")>>
    ELSE u

\* self.chat_endpoint, line 33
ChatEndpoint(base) ==
    RStripSlash(base) \o <<Sym("/"), Sym("chat"), Sym("/"), Sym("completions")>>

\* The object __init__ leaves: it never raises; without a base url it only
\* logs, and the object has no chat_endpoint attribute.
NewClient(api_key, base_url, env_key, env_url) ==
    LET key == PyOr(api_key, env_key)
        url == PyOr(base_url, env_url)
    IN IF ~Truthy(url)
       THEN [constructed |-> TRUE, api_key |-> key, base_url |-> url,
             has_endpoint |-> FALSE, chat_endpoint |-> PyNone]
       ELSE [constructed |-> TRUE, api_key |-> key,
             base_url |-> PyStr(NormalizedBaseUrl(url.v)),
             has_endpoint |-> TRUE,
             chat_endpoint |-> PyStr(ChatEndpoint(NormalizedBaseUrl(url.v)))]

\* A mutant of Configured: the api key is not checked.
ConfiguredNoKeyCheck(c) ==
    /\ Truthy(c.base_url)
    /\ c.has_endpoint

\* The guards of llm_call, lines 90-95.
Configured(c) ==
    /\ Truthy(c.api_key)
    /\ Truthy(c.base_url)
    /\ c.has_endpoint

(***************************************************************************)
(* LLMClient.llm_call, llm_client.py 78-191, and analyze_record, 37-75.    *)
(* The backend's part in a call is one of: a timeout, a connection         *)
(* failure, or a response with a status and a body (JSON or not).          *)
(***************************************************************************)
Timeout == [kind |-> "timeout"]
ConnectionFailure == [kind |-> "connection_error"]
Response(status, body) == [kind |-> "response", status |-> status, body |-> body]
NotJson == [json |-> FALSE]
JsonBody(data) == [json |-> TRUE, data |-> data]
NoResponse == [kind |-> "none"]

\* The exception classes a call can meet, with their base classes.
Bases(exc) ==
    CASE exc = "Timeout" -> {"Timeout", "RequestException", "Exception"}
      [] exc = "ConnectionError" ->
            {"ConnectionError", "RequestException", "Exception"}
      [] exc = "HTTPError" -> {"HTTPError", "RequestException", "Exception"}
      [] exc = "RequestsJSONDecodeError" ->
            {"RequestsJSONDecodeError", "RequestException",
             "JSONDecodeError", "Exception"}
      [] OTHER -> {exc, "Exception"}

IsA(exc, cls) == cls \in Bases(exc)

\* response_format and response_format.get("type") in [json_object, json_schema]
Structured(fmt) == fmt \in {"json_object", "json_schema"}

\* A mutant of ContentResult: a parse failure falls back to the raw text.
ContentResultRawFallback(fmt, content) ==
    IF content.k # "str" THEN Raise("TypeError")
    ELSE LET r == JsonLoads(content.v)
         IN IF Structured(fmt) /\ r.exc = "none" THEN r
            ELSE Value(PyStr(Strip(content.v)))

\* Lines 140-153: the content string parsed as JSON (a parse failure is
\* caught at 146-150 and gives None), or stripped.
ContentResult(fmt, content) ==
    IF Structured(fmt)
    THEN IF content.k # "str" THEN Raise("TypeError")
         ELSE LET r == JsonLoads(content.v)
              IN IF r.exc = "none" THEN r
                 ELSE IF IsA(r.exc, "JSONDecodeError") THEN Value(PyNone)
                 ELSE r
    ELSE IF content.k # "str" THEN Raise("AttributeError")
         ELSE Value(PyStr(Strip(content.v)))

\* Lines 134-160: choices[0].message.content out of the response data.
ExtractResult(fmt, data) ==
    IF data.k # "dict" THEN Raise("AttributeError")
    ELSE LET choices == DictGet(data, "choices")
         IN IF ~Truthy(choices) THEN Value(PyNone)
            ELSE IF choices.k = "num" THEN Raise("TypeError")
            ELSE IF choices.k = "dict" THEN Raise("KeyError")
            ELSE LET first == IF choices.k = "list" THEN choices.v[1]
                              ELSE PyStr(<<choices.v[1]>>)
                 IN IF first.k # "dict" THEN Raise("AttributeError")
                    ELSE LET message == DictGet(first, "message")
                         IN IF ~Truthy(message) THEN Value(PyNone)
                            ELSE IF message.k # "dict"
                                 THEN Raise("AttributeError")
                            ELSE LET content == DictGet(message, "content")
                                 IN IF ~Truthy(content) THEN Value(PyNone)
                                    ELSE ContentResult(fmt, content)

\* Lines 118-163, the try block: post, raise_for_status, response.json().
LlmCallBody(fmt, o) ==
    IF o.kind = "timeout" THEN Raise("Timeout")
    ELSE IF o.kind = "connection_error" THEN Raise("ConnectionError")
    ELSE IF o.status >= 400 THEN Raise("HTTPError")
    ELSE IF ~o.body.json THEN Raise("RequestsJSONDecodeError")
    ELSE ExtractResult(fmt, o.body.data)

\* A mutant of LlmCallExcepts: the catch-all clause is missing.
LlmCallExceptsNoCatchAll == <<"Timeout", "RequestException", "JSONDecodeError">>

\* The except clauses of llm_call, lines 165-191, in order.
LlmCallExcepts == <<"Timeout", "RequestException", "JSONDecodeError", "Exception">>

\* The RequestException clause logs http_error.response.json(), 173-178:
\* for a body that is not JSON that raises inside the handler, and the
\* handler's own `except json.JSONDecodeError` decides whether it escapes.
HandlerEscapes(exc, o) ==
    /\ exc = "HTTPError"
    /\ ~o.body.json
    /\ ~IsA("RequestsJSONDecodeError", "JSONDecodeError")

\* What llm_call does with the backend's outcome o: a value returned, or an
\* exception raised to the caller.
LlmCall(fmt, o) ==
    LET r == LlmCallBody(fmt, o)
    IN IF r.exc = "none" THEN [raised |-> FALSE, val |-> r.val]
       ELSE IF /\ \E i \in 1..Len(LlmCallExcepts) : IsA(r.exc, LlmCallExcepts[i])
               /\ ~HandlerEscapes(r.exc, o)
            THEN [raised |-> FALSE, val |-> PyNone]
            ELSE [raised |-> TRUE, val |-> PyNone]

\* analyze_record: llm_call with the json_schema format, inside
\* try/except Exception.
AnalyzeRecord(o) ==
    LET r == LlmCall("json_schema", o)
    IN IF r.raised THEN [raised |-> FALSE, val |-> PyNone] ELSE r

\* The outcome of the call in progress.
ResultOf(entry, fmt, o) ==
    IF entry = "analyze_record" THEN AnalyzeRecord(o) ELSE LlmCall(fmt, o)

\* The caller enters llm_call or analyze_record: with a missing key, base
\* url or endpoint the call returns None at once (90-95); otherwise the
\* request is posted and the call blocks.
GatewayBegin(entry, messages, fmt) ==
    /\ gw_pc = "idle"
    /\ gw_entry' = entry
    /\ gw_messages' = messages
    /\ gw_format' = IF entry = "analyze_record" THEN "json_schema" ELSE fmt
    /\ calls' = calls + 1
    /\ gw_response' = NoResponse
    /\ gw_result' = PyNone
    /\ IF Configured(client)
       THEN gw_pc' = "posted" /\ call_requests' = 1
       ELSE gw_pc' = "returned" /\ call_requests' = 0

\* The backend answers the posted request (or the 120 s timeout expires)
\* and the call returns or raises.
BackendRespond(outcomes) ==
    /\ gw_pc = "posted"
    /\ \E o \in outcomes :
          LET out == ResultOf(gw_entry, gw_format, o)
          IN /\ gw_response' = o
             /\ gw_result' = out.val
             /\ gw_pc' = IF out.raised THEN "raised" ELSE "returned"
    /\ UNCHANGED <<gw_entry, gw_format, gw_messages, call_requests, calls>>

\* The caller has taken the result.
GatewayDone ==
    /\ gw_pc' = "idle"
    /\ gw_entry' = "none"
    /\ gw_format' = "None"
    /\ gw_response' = NoResponse
    /\ gw_result' = PyNone
    /\ gw_messages' = <<>>
    /\ call_requests' = 0
    /\ UNCHANGED calls

GatewayIdle ==
    /\ gw_pc = "idle"
    /\ gw_entry = "none"
    /\ gw_format = "None"
    /\ gw_response = NoResponse
    /\ gw_result = PyNone
    /\ gw_messages = <<>>
    /\ call_requests = 0
    /\ calls = 0

\* A prompt file: absent, or what json.load and the two .get() of lines
\* 67-70 make of it: whether it is JSON, and whether "messages" and
\* "response_schema" are there (and not empty).
NoFile == [exists |-> FALSE]
PromptFile(json, messages, response_schema) ==
    [exists |-> TRUE, json |-> json, messages |-> messages,
     response_schema |-> response_schema]

\* The user messages of prompts/*.json.
PromptUser == <<Sym("[Title]"), Ws, Sym("[Text content]")>>
SummarizationUser ==
    <<Sym("{combined_descriptions}"), Ws, Sym("{combined_categories}"), Ws,
      Sym("{combined_topics}")>>

\* The database and both prompt files are there and well-formed.
InputsGood ==
    /\ db_exists = TRUE
    /\ prompt_file = PromptFile(TRUE, TRUE, TRUE)
    /\ summarization_file = PromptFile(TRUE, TRUE, TRUE)
    /\ prompt_user = PromptUser
    /\ summarization_user = SummarizationUser

\* No record is being analyzed.
PipelineIdle ==
    /\ InputsGood
    /\ db_rows = <<>>
    /\ md_exists = FALSE
    /\ history_records = <<>>
    /\ rec_index = 0
    /\ prompt_has_user = TRUE
    /\ summarization_has_user = TRUE
    /\ chunk_index = 0
    /\ chunk_descriptions = <<>>
    /\ chunk_categories = <<>>
    /\ chunk_topics = <<>>
    /\ chunk_calls = <<>>
    /\ final_description = PyNone
    /\ final_category = PyNone
    /\ final_topics = PyNone
    /\ summary_result = Unbound
    /\ processed_records_count = 0
    /\ summary_calls = 0
    /\ md_file = <<>>
    /\ written = <<>>
    /\ described = <<>>
    /\ category_counter = <<>>
    /\ topic_counter = <<>>
    /\ original_topics = <<>>
    /\ report_topics = <<>>

(***************************************************************************)
(* The chunker on its own: every content, max_length > 0 and overlap >= 0  *)
(* within the bounds, and the 9000/4000/200 scenario.                      *)
(***************************************************************************)
\* A record of 9000 characters under the default limits.
Scenario == [len |-> 9000, max |-> 4000, overlap |-> 200]

InitChunker ==
    /\ pc = "chunk_begin"
    /\ start = 0
    /\ content_chunks = <<>>
    /\ starts = <<>>
    /\ client = NoClient
    /\ GatewayIdle
    /\ PipelineIdle
    /\ \/ /\ full_content \in SeqsUpTo(Alphabet, MaxLen) \ {<<>>}
          /\ max_content_length \in 1..MaxChunkLen
          /\ chunk_overlap \in 0..MaxOverlap
       \/ /\ full_content = [i \in 1..Scenario.len |-> "a"]
          /\ max_content_length = Scenario.max
          /\ chunk_overlap = Scenario.overlap

NextChunker == ChunkBegin \/ ChunkStep

SpecChunker == InitChunker /\ [][NextChunker]_vars

SpecChunkerFair == SpecChunker /\ WF_vars(NextChunker)

(***************************************************************************)
(* The gateway on its own: a client is constructed from any arguments and  *)
(* environment, and is then called with any format against any backend     *)
(* outcome.                                                                *)
(***************************************************************************)
MaxCalls == 2

EmptyDict == PyDict(<<>>)

Analysis(d, c, t) ==
    <<Sym("{"), JsonMember("description", d), JsonMember("category", c),
      JsonMember("topics", t), Sym("}")>>

\* Completion texts: prose, JSON objects, JSON literals, broken JSON, with
\* and without surrounding whitespace.
GatewayTexts ==
    LET full == Analysis(Str(<<"d1">>), Str(<<"c1">>), PyList(<<Str(<<"t1">>)>>))
        noCategory == <<Sym("{"), JsonMember("description", Str(<<"d1">>)),
                        JsonMember("topics", PyList(<<Str(<<"t1">>)>>)), Sym("}")>>
        bodies == { <<Sym("prose")>>,
                    full,
                    noCategory,
                    <<Sym("{"), Sym("}")>>,
                    <<JsonLit(PyNum(7))>>,
                    <<JsonLit(Str(<<"quoted">>))>>,
                    <<JsonLit(PyList(<<Str(<<"t1">>)>>))>>,
                    <<JsonLit(PyNone)>>,
                    <<Sym("{"), JsonMember("description", Str(<<"d1">>))>>,
                    <<Sym("prose"), full>> }
    IN bodies \cup {<<Ws>> \o b \o <<Ws>> : b \in bodies} \cup {<<Ws>>}

GatewayContents ==
    {PyStr(t) : t \in GatewayTexts}
        \cup {PyNone, PyStr(<<>>), PyList(<<Str(<<"part">>)>>), PyNum(5)}

GatewayMessages ==
    {PyDict([content |-> c]) : c \in GatewayContents}
        \cup {PyNone, EmptyDict, Str(<<"text">>),
              PyDict([role |-> Str(<<"assistant">>)])}

GatewayChoices ==
    {PyList(<<PyDict([message |-> m])>>) : m \in GatewayMessages}
        \cup {PyNone, PyList(<<>>), PyNum(3), Str(<<"text">>),
              PyDict([error |-> Str(<<"text">>)]),
              PyList(<<Str(<<"text">>)>>),
              PyList(<<PyDict([index |-> PyNum(0)])>>)}

GatewayData ==
    {PyDict([choices |-> ch]) : ch \in GatewayChoices}
        \cup {EmptyDict, PyDict([error |-> Str(<<"text">>)]), PyList(<<>>),
              PyNum(1)}

GatewayBodies == {NotJson} \cup {JsonBody(d) : d \in GatewayData}

HttpStatuses == {200, 401, 500}

GatewayOutcomes ==
    {Timeout, ConnectionFailure}
        \cup {Response(st, b) : st \in HttpStatuses, b \in GatewayBodies}

ResponseFormats == {"None", "json_schema", "json_object", "text"}

ApiKeyArgs == {PyNone, PyStr(<<>>), Str(<<"key">>)}
ApiKeyEnvs == {PyNone, Str(<<"envkey">>)}
Host == Sym("http://host")
BaseUrlArgs ==
    {PyNone, PyStr(<<>>), PyStr(<<Host>>), PyStr(<<Host, Sym("/")>>),
     PyStr(<<Host, Sym("/"), Sym("v1")>>),
     PyStr(<<Sym("https://"), Sym("api.openai.com")>>)}
BaseUrlEnvs == {PyNone, PyStr(<<Host, Sym("/"), Sym("v1"), Sym("/")>>)}

\* llm_client = LLMClient(base_url=..., api_key=..., model=...), with the
\* arguments and the environment drawn from the given sets.
ConstructClient(keys, urls, envKeys, envUrls) ==
    /\ pc = "construct"
    /\ \E k \in keys, u \in urls, ek \in envKeys, eu \in envUrls :
          client' = NewClient(k, u, ek, eu)
    /\ UNCHANGED <<chunkVars, gwVars, pipeVars>>

Construct ==
    /\ ConstructClient(ApiKeyArgs, BaseUrlArgs, ApiKeyEnvs, BaseUrlEnvs)
    /\ pc' = "ready"

\* A caller calls llm_call with some format, or analyze_record.
ClientCall ==
    /\ pc = "ready"
    /\ calls < MaxCalls
    /\ \E entry \in {"llm_call", "analyze_record"}, fmt \in ResponseFormats :
          GatewayBegin(entry, <<Sym("prompt")>>, fmt)
    /\ UNCHANGED <<pc, chunkVars, client, pipeVars>>

ClientRespond ==
    /\ pc = "ready"
    /\ BackendRespond(GatewayOutcomes)
    /\ UNCHANGED <<pc, chunkVars, client, pipeVars>>

ClientReturn ==
    /\ pc = "ready"
    /\ gw_pc = "returned"
    /\ GatewayDone
    /\ UNCHANGED <<pc, chunkVars, client, pipeVars>>

InitGateway ==
    /\ pc = "construct"
    /\ client = NoClient
    /\ GatewayIdle
    /\ PipelineIdle
    /\ full_content = <<>>
    /\ max_content_length = 1
    /\ chunk_overlap = 0
    /\ start = 0
    /\ content_chunks = <<>>
    /\ starts = <<>>

NextGateway == Construct \/ ClientCall \/ ClientRespond \/ ClientReturn

SpecGateway == InitGateway /\ [][NextGateway]_vars

(***************************************************************************)
(* analyze_history, history_analyzer.py 133-323: the record loop, the      *)
(* per-chunk analysis and the consolidation of one record.                 *)
(***************************************************************************)
\* Lines 67-79 and 82-94 for one prompt file: json.load raises, or a
\* ValueError is raised for a missing "messages" or "response_schema".
LoadRaises(file) == ~file.json \/ ~file.messages \/ ~file.response_schema

\* A mutant of InputsRaise: "response_schema" is not looked at.
InputsRaiseUnlessMessages(db, prompt, summarization) ==
    \/ ~db
    \/ ~prompt.exists
    \/ ~summarization.exists
    \/ ~prompt.json \/ ~prompt.messages
    \/ ~summarization.json \/ ~summarization.messages

\* Lines 52-94: the checks of the database file and of both prompt files.
InputsRaise(db, prompt, summarization) ==
    \/ ~db
    \/ ~prompt.exists
    \/ ~summarization.exists
    \/ LoadRaises(prompt)
    \/ LoadRaises(summarization)

\* A mutant of Cleared: the file is left as it is.
NotCleared(exists, text) == text

\* The file after lines 103-105: emptied if it exists.
Cleared(exists, text) == IF exists THEN <<>> ELSE text

\* analyze_history up to the record loop, lines 50-131: the inputs are
\* checked, the output file of the day is emptied if it exists, and the
\* records are fetched.
AnalyzeBegin ==
    /\ pc = "start"
    /\ IF InputsRaise(db_exists, prompt_file, summarization_file)
       THEN /\ pc' = "raised"
            /\ UNCHANGED <<md_file, history_records, processed_records_count>>
       ELSE /\ md_file' = Cleared(md_exists, md_file)
            /\ history_records' = db_rows
            /\ processed_records_count' = 0
            /\ pc' = "record_loop"
    /\ UNCHANGED <<chunkVars, client, gwVars, inputVars, reportVars,
                   analysisVars, finalVars, rec_index, md_exists, written,
                   described, counterVars>>

\* A mutant of Skips: no record is skipped.
SkipsNothing(content) == FALSE

\* Line 145, `if not full_content`: a record whose content is absent or
\* empty (both are <<>> here) is skipped.
Skips(content) == content = <<>>

\* `for i, record in enumerate(history_records)` with the skip of a record
\* without content, lines 133-151.
RecordNext ==
    /\ pc = "record_loop"
    /\ IF rec_index = Len(history_records)
       THEN /\ pc' = "done"
            /\ UNCHANGED <<chunkVars, rec_index>>
       ELSE LET content == history_records[rec_index + 1].content
            IN IF Skips(content)
               THEN /\ rec_index' = rec_index + 1
                    /\ UNCHANGED <<pc, chunkVars>>
               ELSE /\ full_content' = content
                    /\ content_chunks' = <<>>
                    /\ start' = 0
                    /\ starts' = <<>>
                    /\ pc' = "chunk_begin"
                    /\ UNCHANGED <<rec_index, max_content_length, chunk_overlap>>
    /\ UNCHANGED <<client, gwVars, configVars, reportVars, analysisVars, finalVars,
                   processed_records_count, outVars, counterVars>>

\* Lines 173-175: the three lists start empty.
ChunkLoopBegin ==
    /\ pc = "chunked"
    /\ chunk_index' = 0
    /\ chunk_descriptions' = <<>>
    /\ chunk_categories' = <<>>
    /\ chunk_topics' = <<>>
    /\ chunk_calls' = [k \in 1..Len(content_chunks) |-> 0]
    /\ summary_calls' = 0
    /\ pc' = "chunks"
    /\ UNCHANGED <<chunkVars, client, gwVars, configVars, reportVars, finalVars, recVars>>

\* A mutant of NextChunkIndex: a chunk whose analysis failed is tried again.
NextChunkIndexRetry(i, ok) == IF ok THEN i + 1 ELSE i

\* `for chunk_index, content_chunk in enumerate(content_chunks)`: the loop
\* goes on to the next chunk, whether the chunk's analysis succeeded or not.
NextChunkIndex(i, ok) == i + 1

\* A mutant of UserMessageFound: the template is taken to have a user
\* message.
UserMessageAssumed(has_user) == TRUE

\* user_message_found after the loops over the messages of a template,
\* lines 178-188 and 238-248.
UserMessageFound(has_user) == has_user

\* Lines 181-184: the user message of a chunk's prompt.
ChunkPrompt(content_template, record_title, content_chunk) ==
    Replace(Replace(content_template, "[Title]", record_title.v),
            "[Text content]", Chars(content_chunk))

\* "\n".join(f"- {item}" for item in items), lines 231-234.
RECURSIVE BulletList(_)
BulletList(items) ==
    IF items = <<>> THEN <<>>
    ELSE <<Sym("-"), Ws>> \o Format(Head(items))
         \o (IF Len(items) > 1 THEN <<NL>> \o BulletList(Tail(items))
             ELSE <<>>)

\* Lines 176-198: the template is filled in and analyze_record is called;
\* without a user message in the template the chunk is skipped.
AnalyzeChunk ==
    /\ pc = "chunks"
    /\ chunk_index < Len(content_chunks)
    /\ IF ~UserMessageFound(prompt_has_user)
       THEN /\ chunk_index' = chunk_index + 1
            /\ UNCHANGED <<pc, gwVars, chunk_calls>>
       ELSE /\ GatewayBegin("analyze_record",
                            ChunkPrompt(prompt_user,
                                        history_records[rec_index + 1].title,
                                        content_chunks[chunk_index + 1]),
                            "json_schema")
            /\ chunk_calls' = [chunk_calls EXCEPT ![chunk_index + 1] = @ + 1]
            /\ pc' = "await_chunk"
            /\ UNCHANGED chunk_index
    /\ UNCHANGED <<chunkVars, client, configVars, reportVars, chunk_descriptions,
                   chunk_categories, chunk_topics, summary_calls, finalVars,
                   recVars>>

\* `w in r` for a list or str r.
Contains(r, w) == \E i \in 1..Len(r.v) : r.v[i] \in {Sym(w), Str(<<w>>)}

AnalysisFields == {"description", "category", "topics"}

\* The test at lines 200-203 on analysis_result, and the subscripts at
\* 204-206: a dict with the three keys is complete; a number cannot be
\* searched with `in`, and a list or str that holds the three words cannot
\* be subscripted with "description" (both a TypeError).
ChunkCheck(r) ==
    CASE ~Truthy(r) -> "incomplete"
      [] Truthy(r) /\ r.k = "dict" ->
            IF AnalysisFields \subseteq DOMAIN r.v THEN "complete"
            ELSE "incomplete"
      [] Truthy(r) /\ r.k = "num" -> "raise"
      [] Truthy(r) /\ r.k \in {"list", "str"} ->
            IF \A w \in AnalysisFields : Contains(r, w) THEN "raise"
            ELSE "incomplete"

\* Lines 206-210: a list of topics extends chunk_topics, a str is appended,
\* anything else is dropped.
WithTopics(acc, topics) ==
    CASE topics.k = "list" -> acc \o topics.v
      [] topics.k = "str" -> Append(acc, topics)
      [] OTHER -> acc

\* A mutant of KeepAnalysis: a result without category still gives its
\* description.
KeepAnalysisPartial(r) ==
    IF ChunkCheck(r) = "complete" \/ (r.k = "dict" /\ "description" \in DOMAIN r.v)
    THEN [descriptions |-> Append(chunk_descriptions, r.v.description),
          categories |-> IF "category" \in DOMAIN r.v
                         THEN Append(chunk_categories, r.v.category)
                         ELSE chunk_categories,
          topics |-> IF "topics" \in DOMAIN r.v
                     THEN WithTopics(chunk_topics, r.v.topics)
                     ELSE chunk_topics]
    ELSE [descriptions |-> chunk_descriptions,
          categories |-> chunk_categories,
          topics |-> chunk_topics]

\* Lines 200-213: the three lists after a chunk's result r.
KeepAnalysis(r) ==
    IF ChunkCheck(r) = "complete"
    THEN [descriptions |-> Append(chunk_descriptions, r.v.description),
          categories |-> Append(chunk_categories, r.v.category),
          topics |-> WithTopics(chunk_topics, r.v.topics)]
    ELSE [descriptions |-> chunk_descriptions,
          categories |-> chunk_categories,
          topics |-> chunk_topics]

\* analyze_record has returned: lines 200-213.  A TypeError leaves the
\* record loop through the `except Exception` at 328-330, which re-raises.
ChunkResult ==
    /\ pc = "await_chunk"
    /\ gw_pc = "returned"
    /\ LET kept == KeepAnalysis(gw_result)
       IN /\ chunk_descriptions' = kept.descriptions
          /\ chunk_categories' = kept.categories
          /\ chunk_topics' = kept.topics
    /\ IF ChunkCheck(gw_result) = "raise"
       THEN pc' = "raised" /\ UNCHANGED chunk_index
       ELSE /\ pc' = "chunks"
            /\ chunk_index' =
                  NextChunkIndex(chunk_index, ChunkCheck(gw_result) = "complete")
    /\ GatewayDone
    /\ UNCHANGED <<chunkVars, client, configVars, reportVars, chunk_calls, summary_calls,
                   finalVars, recVars>>

\* hash(v) raises TypeError for a list or a dict.
Hashable(v) == v.k \notin {"list", "dict"}

\* A mutant of Dedup: repeated elements are kept.
NoDedup(s) == s

\* list(dict.fromkeys(s)): the first occurrence of each element, in order.
RECURSIVE Dedup(_)
Dedup(s) ==
    IF s = <<>> THEN <<>>
    ELSE LET init == Dedup(SubSeq(s, 1, Len(s) - 1))
         IN IF \E i \in 1..Len(init) : init[i] = Last(s) THEN init
            ELSE Append(init, Last(s))

\* A mutant of First3: s[:4]
First4(s) == SubSeq(s, 1, Min(4, Len(s)))

\* s[:3]
First3(s) == SubSeq(s, 1, Min(3, Len(s)))

\* Occurrences of v in s.
Count(s, v) == Cardinality({i \in 1..Len(s) : s[i] = v})

\* A mutant of MostCommon: among equally frequent values the last one.
MostCommonLast(s) ==
    LET best == {i \in 1..Len(s) :
                    \A j \in 1..Len(s) : Count(s, s[j]) <= Count(s, s[i])}
    IN s[CHOOSE i \in best : \A j \in best : j <= i]

\* Counter(s).most_common(1)[0][0]: a value with the highest count, the
\* first encountered among equals.
MostCommon(s) ==
    LET best == {i \in 1..Len(s) :
                    \A j \in 1..Len(s) : Count(s, s[j]) <= Count(s, s[i])}
    IN s[CHOOSE i \in best : \A j \in best : i <= j]

\* A str with words appended.
Concat(str, words) == PyStr(str.v \o [i \in 1..Len(words) |-> Sym(words[i])])

\* description + marker; a description that is no str cannot be added to.
WithMarker(description, marker) ==
    IF description.k = "str" THEN Value(Concat(description, <<" ", marker>>))
    ELSE Raise("TypeError")

\* The fallback of lines 252-259 and 288-295: first description plus a
\* marker, most common category, first three unique topics.
Fallback(marker) ==
    LET d == WithMarker(chunk_descriptions[1], marker)
    IN IF \/ d.exc # "none"
          \/ \E i \in 1..Len(chunk_categories) : ~Hashable(chunk_categories[i])
          \/ \E i \in 1..Len(chunk_topics) : ~Hashable(chunk_topics[i])
       THEN [raised |-> TRUE, description |-> PyNone, category |-> PyNone,
             topics |-> PyNone]
       ELSE [raised |-> FALSE,
             description |-> d.val,
             category |-> MostCommon(chunk_categories),
             topics |-> IF chunk_topics # <<>>
                        THEN PyList(First3(Dedup(chunk_topics))) ELSE PyNone]

\* Lines 231-246: the user message of the summarization prompt.
SummaryPrompt(content_template, descriptions, categories, topics) ==
    Replace(Replace(Replace(content_template, "{combined_descriptions}",
                            BulletList(descriptions)),
                    "{combined_categories}", BulletList(categories)),
            "{combined_topics}", BulletList(Dedup(topics)))

\* A mutant of PassesThrough: a record with one analysis is passed through,
\* however many chunks it has.
PassesThroughOneResult(chunks, descriptions) == Len(descriptions) = 1

\* Line 223: `elif len(content_chunks) == 1 and chunk_descriptions`.
PassesThrough(chunks, descriptions) ==
    Len(chunks) = 1 /\ descriptions # <<>>

\* A mutant of ChunksDone: the loop is left after its first iteration.
ChunksDoneEarly(i, chunks) == i >= 1

\* `for chunk_index, content_chunk in enumerate(content_chunks)` is
\* exhausted.
ChunksDone(i, chunks) == i = Len(chunks)

\* The chunk loop is over: lines 217-274.  No description: no result.  One
\* chunk: its analysis is passed through.  Several chunks: the summarization
\* prompt is built and llm_call is called, or, without a user message in
\* the summarization template, the fallback is taken.
Consolidate ==
    /\ pc = "chunks"
    /\ ChunksDone(chunk_index, content_chunks)
    /\ IF chunk_descriptions = <<>>
       THEN /\ final_description' = PyNone
            /\ final_category' = PyNone
            /\ final_topics' = PyNone
            /\ summary_result' = Unbound
            /\ pc' = "write"
            /\ UNCHANGED <<gwVars, summary_calls>>
       ELSE IF PassesThrough(content_chunks, chunk_descriptions)
       THEN IF \E i \in 1..Len(chunk_topics) : ~Hashable(chunk_topics[i])
            THEN pc' = "raised" /\ UNCHANGED <<finalVars, gwVars, summary_calls>>
            ELSE /\ final_description' = chunk_descriptions[1]
                 /\ final_category' = chunk_categories[1]
                 /\ final_topics' = IF chunk_topics # <<>>
                                    THEN PyList(First3(Dedup(chunk_topics)))
                                    ELSE PyNone
                 /\ summary_result' = Unbound
                 /\ pc' = "write"
                 /\ UNCHANGED <<gwVars, summary_calls>>
       ELSE IF \E i \in 1..Len(chunk_topics) : ~Hashable(chunk_topics[i])
       THEN pc' = "raised" /\ UNCHANGED <<finalVars, gwVars, summary_calls>>
       ELSE IF ~UserMessageFound(summarization_has_user)
       THEN LET f == Fallback("(Summarization failed - template error)")
            IN /\ final_description' = f.description
               /\ final_category' = f.category
               /\ final_topics' = f.topics
               /\ summary_result' = Unbound
               /\ pc' = IF f.raised THEN "raised" ELSE "write"
               /\ UNCHANGED <<gwVars, summary_calls>>
       ELSE /\ GatewayBegin("llm_call",
                            SummaryPrompt(summarization_user, chunk_descriptions,
                                          chunk_categories, chunk_topics),
                            "json_schema")
            /\ summary_calls' = summary_calls + 1
            /\ final_description' = PyNone
            /\ final_category' = PyNone
            /\ final_topics' = PyNone
            /\ summary_result' = Unbound
            /\ pc' = "await_summary"
    /\ UNCHANGED <<chunkVars, client, configVars, reportVars, chunk_index,
                   chunk_descriptions, chunk_categories, chunk_topics,
                   chunk_calls, recVars>>

\* A mutant of SummaryAnalysis: the summary's topics are treated as the
\* fallback's are.
SummaryAnalysisCapped(r) ==
    [description |-> r.v.description,
     category |-> r.v.category,
     topics |-> IF r.v.topics.k = "list"
                THEN PyList(First3(Dedup(r.v.topics.v))) ELSE r.v.topics]

\* Lines 280-282: the three fields of the summary, as returned.
SummaryAnalysis(r) ==
    [description |-> r.v.description,
     category |-> r.v.category,
     topics |-> r.v.topics]

\* llm_call has returned the summary: lines 276-296.
SummaryResult ==
    /\ pc = "await_summary"
    /\ gw_pc = "returned"
    /\ summary_result' = gw_result
    /\ IF /\ Truthy(gw_result)
          /\ gw_result.k = "dict"
          /\ AnalysisFields \subseteq DOMAIN gw_result.v
       THEN /\ final_description' = SummaryAnalysis(gw_result).description
            /\ final_category' = SummaryAnalysis(gw_result).category
            /\ final_topics' = SummaryAnalysis(gw_result).topics
            /\ pc' = "write"
       ELSE LET f == Fallback("(Summarization failed)")
            IN /\ final_description' = f.description
               /\ final_category' = f.category
               /\ final_topics' = f.topics
               /\ pc' = IF f.raised THEN "raised" ELSE "write"
    /\ GatewayDone
    /\ UNCHANGED <<chunkVars, client, configVars, reportVars, analysisVars, recVars>>

\* The locals of an iteration of the record loop as the next iteration
\* first assigns them (lines 141, 154, 157, 173-175, 217-219); none is read
\* before that.
RecordLocalsCleared ==
    /\ full_content' = <<>>
    /\ start' = 0
    /\ content_chunks' = <<>>
    /\ starts' = <<>>
    /\ chunk_index' = 0
    /\ chunk_descriptions' = <<>>
    /\ chunk_categories' = <<>>
    /\ chunk_topics' = <<>>
    /\ chunk_calls' = <<>>
    /\ summary_calls' = 0
    /\ final_description' = PyNone
    /\ final_category' = PyNone
    /\ final_topics' = PyNone
    /\ summary_result' = Unbound

(***************************************************************************)
(* The markdown output, history_analyzer.py 298-315: the text of the file  *)
(* is a sequence of symbols, as the text of a str is.                      *)
(***************************************************************************)
\* ", ".join(items) of texts.
RECURSIVE JoinTexts(_)
JoinTexts(items) ==
    IF items = <<>> THEN <<>>
    ELSE IF Len(items) = 1 THEN items[1]
    ELSE items[1] \o <<Comma, Ws>> \o JoinTexts(Tail(items))

\* ", ".join(topics), line 309: a list of str is joined; a str is iterated
\* symbol by symbol; a list holding anything but str, and a number, is a
\* TypeError.  (No completion of the model gives a dict for topics.)
Join(topics) ==
    CASE topics.k = "list" ->
            IF \A i \in 1..Len(topics.v) : topics.v[i].k = "str"
            THEN Value(PyStr(JoinTexts([i \in 1..Len(topics.v) |->
                                           topics.v[i].v])))
            ELSE Raise("TypeError")
      [] topics.k = "str" ->
            Value(PyStr(JoinTexts([i \in 1..Len(topics.v) |->
                                      <<topics.v[i]>>])))
      [] OTHER -> Raise("TypeError")

\* md_file.write(f"<key> {text}\n")
Line(key, text) == <<Sym(key), Ws>> \o text \o <<NL>>

\* md_file.write("\n---\n\n")
Separator == <<NL, Sym("---"), NL, NL>>

\* Lines 300-311: what the `with` block appends to the file.  A TypeError
\* of the join leaves the block as written so far (the file is closed by
\* the `with`), and is logged by the except clause at 313-314.
MarkdownBlock(title, url, description, category, topics) ==
    Line("Title:", Format(title))
    \o Line("URL:", Format(url))
    \o Line("Description:", Format(description))
    \o (IF Truthy(category) THEN Line("Category:", Format(category)) ELSE <<>>)
    \o (IF ~Truthy(topics) THEN Separator
        ELSE IF Join(topics).exc = "none"
             THEN Line("Topics:", Join(topics).val.v) \o Separator
             ELSE <<>>)

\* A mutant of Writes: a block is written for every record.
WritesAlways(description) == TRUE

\* A mutant of Writes: an empty description is written too.
WritesUnlessNone(description) == description # PyNone

\* Line 299: `if final_description:`.
Writes(description) == Truthy(description)

\* Lines 298-323: the record's block is appended to the output file when
\* the record has a description, the record is counted as processed and the
\* loop goes on.
RecordEnd ==
    /\ pc = "write"
    /\ LET record == history_records[rec_index + 1]
       IN IF Writes(final_description)
          THEN /\ md_exists' = TRUE
               /\ md_file' = md_file \o MarkdownBlock(record.title, record.url,
                                 final_description, final_category, final_topics)
               /\ written' = Append(written,
                                [record |-> rec_index + 1,
                                 description |-> final_description,
                                 category |-> final_category,
                                 topics |-> final_topics])
          ELSE UNCHANGED <<md_exists, md_file, written>>
    /\ described' = IF Truthy(final_description)
                    THEN Append(described, rec_index + 1) ELSE described
    /\ processed_records_count' = processed_records_count + 1
    /\ rec_index' = rec_index + 1
    /\ pc' = "record_loop"
    /\ RecordLocalsCleared
    /\ UNCHANGED <<max_content_length, chunk_overlap, client, gwVars,
                   configVars, reportVars, counterVars>>

(***************************************************************************)
(* extract_data_from_analysis, data_extractor.py 29-52: the categories and *)
(* topics of the output file are counted line by line.                     *)
(***************************************************************************)
\* The pieces of the text s between the occurrences of the symbol sep.
RECURSIVE Split(_, _)
Split(s, sep) ==
    IF \A i \in 1..Len(s) : s[i] # sep THEN <<s>>
    ELSE LET at == CHOOSE i \in 1..Len(s) :
                      s[i] = sep /\ \A j \in 1..(i - 1) : s[j] # sep
         IN <<SubSeq(s, 1, at - 1)>> \o Split(SubSeq(s, at + 1, Len(s)), sep)

\* `for line in f`: the lines of the text, without their newline; the text
\* after the last newline is a line only if there is any.
FileLines(text) ==
    LET pieces == Split(text, NL)
    IN IF Last(pieces) = <<>> THEN SubSeq(pieces, 1, Len(pieces) - 1)
       ELSE pieces

\* re.compile(r"^Category:\s*(.*)", re.IGNORECASE).match(line)
CategoryMatch(line) ==
    line # <<>> /\ line[1].c \in {"Category:", "category:", "CATEGORY:"}

\* re.compile(r"^Topics:\s*(.*)", re.IGNORECASE).match(line)
TopicsMatch(line) ==
    line # <<>> /\ line[1].c \in {"Topics:", "topics:", "TOPICS:"}

\* counter[key] += 1
Increment(counter, key) ==
    [x \in DOMAIN counter \cup {key} |->
        IF x = key
        THEN (IF key \in DOMAIN counter THEN counter[key] ELSE 0) + 1
        ELSE counter[x]]

\* counter.update(keys)
RECURSIVE Update(_, _)
Update(counter, keys) ==
    IF keys = <<>> THEN counter
    ELSE Update(Increment(counter, Head(keys)), Tail(keys))

\* [topic.strip() for topic in topics_str.split(',') if topic.strip()]
SplitTopics(topics_str) ==
    LET pieces == Split(topics_str, Comma)
        stripped == [i \in 1..Len(pieces) |-> Strip(pieces[i])]
    IN SelectSeq(stripped, LAMBDA t : t # <<>>)

\* Lines 38-52 for one line: a Category line counts its category, if any,
\* a Topics line counts each of its topics.
CountLine(counters, line) ==
    IF CategoryMatch(line)
    THEN LET category == Strip(Tail(line))
         IN IF category # <<>>
            THEN [counters EXCEPT !.categories = Increment(@, category)]
            ELSE counters
    ELSE IF TopicsMatch(line)
    THEN [counters EXCEPT
            !.topics = Update(@, SplitTopics(Strip(Tail(line))))]
    ELSE counters

RECURSIVE CountLines(_, _)
CountLines(counters, lines) ==
    IF lines = <<>> THEN counters
    ELSE CountLines(CountLine(counters, Head(lines)), Tail(lines))

\* Lines 29-52: both counters of a text.
Extract(text) ==
    CountLines([categories |-> <<>>, topics |-> <<>>], FileLines(text))

\* extract_data_from_analysis on the output of the finished run.
ExtractData ==
    /\ pc = "done"
    /\ IF md_exists
       THEN /\ category_counter' = Extract(md_file).categories
            /\ topic_counter' = Extract(md_file).topics
            /\ pc' = "extracted"
       ELSE /\ pc' = "extract_raised"
            /\ UNCHANGED counterVars
    /\ UNCHANGED <<chunkVars, client, gwVars, configVars, reportVars, analysisVars,
                   finalVars, rec_index, processed_records_count, outVars>>

(***************************************************************************)
(* A run of analyze_history over the fetched records.                      *)
(***************************************************************************)
MaxRecords == 2
MaxRecLen == 3
MaxTotalLen == 3
MaxRecChunkLen == 2
MaxRecOverlap == 1

Completion(text) ==
    Response(200, JsonBody(PyDict([choices |->
        PyList(<<PyDict([message |-> PyDict([content |-> PyStr(text)])])>>)])))

\* What the backend does with a request of the run: failures, complete
\* analyses (one with its topics as a str of two characters), an analysis
\* without category, one with an empty description,
\* one with a null category and no topics, JSON that is no object.
RunOutcomes ==
    {Timeout,
     Response(500, NotJson),
     Completion(<<Sym("prose")>>),
     Completion(Analysis(Str(<<"d1">>), Str(<<"c1">>),
                         PyList(<<Str(<<"t1">>), Str(<<"t2">>)>>))),
     Completion(Analysis(Str(<<"d2">>), Str(<<"c2">>),
                         PyList(<<Str(<<"t2">>), Str(<<"t3">>), Str(<<"t2">>),
                                  Str(<<"t4">>), Str(<<"t1">>)>>))),
     Completion(Analysis(Str(<<"d2">>), Str(<<"c1">>), Str(<<"t", "3">>))),
     Completion(<<Sym("{"), JsonMember("description", Str(<<"d1">>)),
                  JsonMember("topics", PyList(<<Str(<<"t1">>)>>)), Sym("}")>>),
     Completion(Analysis(Str(<<>>), Str(<<"c1">>),
                         PyList(<<Str(<<"t1">>)>>))),
     Completion(Analysis(Str(<<"d1">>), PyNone, PyList(<<>>))),
     Completion(<<JsonLit(PyNum(7))>>)}

\* main.py 100: the client is constructed, then the run starts.
RunConstruct ==
    /\ ConstructClient({PyNone, Str(<<"key">>)}, {PyNone, PyStr(<<Host>>)},
                       {PyNone}, {PyNone})
    /\ pc' = "start"

Records ==
    {[content |-> c, title |-> Str(<<"title">>), url |-> Str(<<"url">>)] :
        c \in SeqsUpTo({"a"}, MaxRecLen)}

\* The content of all records of a history, in characters.
RECURSIVE TotalLen(_)
TotalLen(h) == IF h = <<>> THEN 0 ELSE Len(Head(h).content) + TotalLen(Tail(h))

\* What the query of lines 123-127 can fetch: up to MaxRecords records with
\* up to MaxTotalLen characters of content in all.
Histories == {h \in SeqsUpTo(Records, MaxRecords) : TotalLen(h) <= MaxTotalLen}

\* The backend answers a request of the run.
RunRespond ==
    /\ pc \in {"await_chunk", "await_summary"}
    /\ BackendRespond(RunOutcomes)
    /\ UNCHANGED <<pc, chunkVars, client, pipeVars>>

Init ==
    /\ pc = "construct"
    /\ client = NoClient
    /\ GatewayIdle
    /\ InputsGood
    /\ db_rows \in Histories
    /\ md_exists = FALSE
    /\ history_records = <<>>
    /\ max_content_length \in 1..MaxRecChunkLen
    /\ chunk_overlap \in 0..MaxRecOverlap
    /\ prompt_has_user \in BOOLEAN
    /\ summarization_has_user \in BOOLEAN
    /\ full_content = <<>>
    /\ start = 0
    /\ content_chunks = <<>>
    /\ starts = <<>>
    /\ rec_index = 0
    /\ chunk_index = 0
    /\ chunk_descriptions = <<>>
    /\ chunk_categories = <<>>
    /\ chunk_topics = <<>>
    /\ chunk_calls = <<>>
    /\ final_description = PyNone
    /\ final_category = PyNone
    /\ final_topics = PyNone
    /\ summary_result = Unbound
    /\ processed_records_count = 0
    /\ summary_calls = 0
    /\ md_file = <<>>
    /\ written = <<>>
    /\ described = <<>>
    /\ category_counter = <<>>
    /\ topic_counter = <<>>
    /\ original_topics = <<>>
    /\ report_topics = <<>>

Next ==
    \/ RunConstruct
    \/ AnalyzeBegin
    \/ RecordNext
    \/ ChunkBegin
    \/ ChunkStep
    \/ ChunkLoopBegin
    \/ AnalyzeChunk
    \/ RunRespond
    \/ ChunkResult
    \/ Consolidate
    \/ SummaryResult
    \/ RecordEnd
    \/ ExtractData

Spec == Init /\ [][Next]_vars

(***************************************************************************)
(* The output on its own: analyses with any title, description, category   *)
(* and topics within the bounds are written as analyze_history writes      *)
(* them (history_analyzer.py 298-315), and the file is then extracted.     *)
(***************************************************************************)
MaxWritten == 2

\* Titles the history store can hold.
OutputTitles == {Str(<<"title">>)}

\* Descriptions a completion can give: plain, and of two lines, the second
\* one reading as a Category line.
OutputDescriptions ==
    {Str(<<"d1">>),
     PyStr(<<Sym("d1"), NL, Sym("Category:"), Ws, Sym("c1")>>)}

\* Categories: none, plain ones, and one of a blank.
OutputCategories == {PyNone, Str(<<"c1">>), Str(<<"c2">>), PyStr(<<Ws>>)}

\* Topics: none, plain ones, a repeated one, one that holds a comma, one
\* with a blank on either side, and a list of a number.
OutputTopics ==
    {PyNone,
     PyList(<<Str(<<"t1">>)>>),
     PyList(<<Str(<<"t1">>), Str(<<"t2">>)>>),
     PyList(<<Str(<<"t1">>), Str(<<"t1">>)>>),
     PyList(<<PyStr(<<Sym("t1"), Comma, Sym("t2")>>)>>),
     PyList(<<PyStr(<<Ws, Sym("t1"), Ws>>)>>),
     PyList(<<PyNum(7)>>)}

\* Lines 298-315 for the final values of one record.
WriteAnalysis ==
    /\ pc = "output"
    /\ Len(written) < MaxWritten
    /\ \E title \in OutputTitles, description \in OutputDescriptions,
          category \in OutputCategories, topics \in OutputTopics :
          /\ Writes(description)
          /\ md_exists' = TRUE
          /\ md_file' = md_file \o MarkdownBlock(title, Str(<<"url">>),
                                     description, category, topics)
          /\ described' = Append(described, Len(written) + 1)
          /\ written' = Append(written, [record |-> Len(written) + 1,
                                         description |-> description,
                                         category |-> category,
                                         topics |-> topics])
    /\ UNCHANGED <<pc, chunkVars, client, gwVars, configVars, reportVars, analysisVars,
                   finalVars, rec_index, processed_records_count, counterVars>>

\* The run is over.
FinishOutput ==
    /\ pc = "output"
    /\ pc' = "done"
    /\ UNCHANGED <<chunkVars, client, gwVars, pipeVars>>

InitOutput ==
    /\ pc = "output"
    /\ client = NoClient
    /\ GatewayIdle
    /\ PipelineIdle
    /\ full_content = <<>>
    /\ max_content_length = 1
    /\ chunk_overlap = 0
    /\ start = 0
    /\ content_chunks = <<>>
    /\ starts = <<>>

NextOutput == WriteAnalysis \/ FinishOutput \/ ExtractData

SpecOutput == InitOutput /\ [][NextOutput]_vars

(***************************************************************************)
(* Properties of the chunker.                                              *)
(***************************************************************************)
Chunked == pc = "chunked"

\* The step of the window: max_length - overlap when positive, else max_length.
StepOf(maxLength, overlap) ==
    IF maxLength - overlap > 0 THEN maxLength - overlap ELSE maxLength

\* The span [lo, hi) of chunk k: where it was cut and how long it is.
SpanLo(k) == starts[k]
SpanHi(k) == starts[k] + Len(content_chunks[k])

\* C1: content with len(C) <= max_length yields exactly one chunk, and that
\* chunk equals C, whatever the overlap: content that fits is never split.
C1_FittingContentIsOneChunk ==
    (Chunked /\ Len(full_content) <= max_content_length)
        => content_chunks = <<full_content>>

C1_Witness ==
    /\ Chunked
    /\ Len(full_content) = max_content_length
    /\ Len(full_content) > 1
    /\ chunk_overlap > 0
    /\ content_chunks = <<full_content>>

\* C2: every character index 0..len(C)-1 lies in the span of at least one
\* chunk; every chunk is the content's text at its span, consecutive spans
\* leave no gap and the last span reaches the content's end.
C2_EveryIndexCovered ==
    Chunked =>
        /\ Len(content_chunks) = Len(starts)
        /\ \A k \in 1..Len(content_chunks) :
              content_chunks[k] = Slice(full_content, SpanLo(k), SpanHi(k))
        /\ \A i \in 0..(Len(full_content) - 1) :
              \E k \in 1..Len(content_chunks) : SpanLo(k) <= i /\ i < SpanHi(k)
        /\ \A k \in 1..(Len(content_chunks) - 1) : SpanLo(k + 1) <= SpanHi(k)
        /\ SpanHi(Len(content_chunks)) = Len(full_content)

C2_Witness ==
    /\ Chunked
    /\ Len(content_chunks) >= 3
    /\ chunk_overlap > 0
    /\ chunk_overlap < max_content_length
    /\ Len(Last(content_chunks)) < max_content_length

\* C3: for content longer than max_length, chunk k (0-based) is exactly
\* content[k*s : min(k*s + M, len)] with s = M - O when M - O > 0 and M
\* otherwise; every chunk is non-empty and at most M long; the chunk count
\* is the number of k with k*s < len, a function of (len, M, O) alone; and
\* len = 9000, M = 4000, O = 200 gives spans [0,4000), [3800,7800),
\* [7600,9000).
C3_ChunkKIsWindowK ==
    (Chunked /\ Len(full_content) > max_content_length) =>
        LET len == Len(full_content)
            M == max_content_length
            s == StepOf(max_content_length, chunk_overlap)
        IN /\ Len(content_chunks) = (len + s - 1) \div s
           /\ \A k \in 0..(Len(content_chunks) - 1) :
                 /\ content_chunks[k + 1] =
                        Slice(full_content, k * s, Min(k * s + M, len))
                 /\ Len(content_chunks[k + 1]) >= 1
                 /\ Len(content_chunks[k + 1]) <= M
           /\ (len = Scenario.len /\ M = Scenario.max
                                  /\ chunk_overlap = Scenario.overlap)
                 => /\ starts = <<0, 3800, 7600>>
                    /\ <<SpanHi(1), SpanHi(2), SpanHi(3)>> = <<4000, 7800, 9000>>

C3_Witness ==
    /\ Chunked
    /\ Len(full_content) = Scenario.len
    /\ max_content_length = Scenario.max
    /\ chunk_overlap = Scenario.overlap
    /\ Len(content_chunks) = 3

\* C4 (as claimed): the first chunk whose window end start + max_length is
\* >= len(content) is the last chunk: no chunk is emitted after a window
\* that already reached the end of the content.
C4_NoChunkAfterWindowReachedEnd ==
    \A k \in 1..(Len(starts) - 1) :
        starts[k] + max_content_length < Len(full_content)

\* C5: the chunking loop terminates; the start offset strictly increases
\* on every iteration, and when overlap >= max_length each step advances by
\* at least max_length.
C5_LoopProgress ==
    [][pc = "chunk_loop" =>
          /\ start' > start
          /\ (chunk_overlap >= max_content_length
                 => start' - start >= max_content_length)]_vars

C5_LoopTerminates == <>Chunked

C5_ChunkingTerminatesWithProgress == C5_LoopProgress /\ C5_LoopTerminates

C5_Witness ==
    /\ Chunked
    /\ chunk_overlap >= max_content_length
    /\ Len(content_chunks) >= 3

(***************************************************************************)
(* Properties of the gateway.                                              *)
(***************************************************************************)
\* The response carries choices[0].message.content as a str.
HasContentText(o) ==
    /\ o.kind = "response"
    /\ o.status = 200
    /\ o.body.json
    /\ o.body.data.k = "dict"
    /\ "choices" \in DOMAIN o.body.data.v
    /\ o.body.data.v.choices.k = "list"
    /\ o.body.data.v.choices.v # <<>>
    /\ o.body.data.v.choices.v[1].k = "dict"
    /\ "message" \in DOMAIN o.body.data.v.choices.v[1].v
    /\ o.body.data.v.choices.v[1].v.message.k = "dict"
    /\ "content" \in DOMAIN o.body.data.v.choices.v[1].v.message.v
    /\ o.body.data.v.choices.v[1].v.message.v.content.k = "str"

ContentText(o) == o.body.data.v.choices.v[1].v.message.v.content.v

\* 'choices' is missing or empty.
ChoicesMissing(o) ==
    /\ o.kind = "response" /\ o.status = 200 /\ o.body.json
    /\ o.body.data.k = "dict"
    /\ \/ "choices" \notin DOMAIN o.body.data.v
       \/ o.body.data.v.choices \in {PyNone, PyList(<<>>)}

\* The first choice has no message, or the message no content, or an empty
\* one.
ContentMissing(o) ==
    /\ o.kind = "response" /\ o.status = 200 /\ o.body.json
    /\ o.body.data.k = "dict"
    /\ "choices" \in DOMAIN o.body.data.v
    /\ o.body.data.v.choices.k = "list"
    /\ o.body.data.v.choices.v # <<>>
    /\ LET choice == o.body.data.v.choices.v[1]
       IN /\ choice.k = "dict"
          /\ \/ "message" \notin DOMAIN choice.v
             \/ choice.v.message \in {PyNone, EmptyDict}
             \/ /\ choice.v.message.k = "dict"
                /\ \/ "content" \notin DOMAIN choice.v.message.v
                   \/ choice.v.message.v.content \in {PyNone, PyStr(<<>>)}

\* One of the failures of a single call: timeout, connection failure,
\* non-success status, non-JSON body, missing or empty choices, missing or
\* empty content, schema requested but content not parseable as JSON.
GatewayFailure(o, fmt) ==
    \/ o.kind \in {"timeout", "connection_error"}
    \/ o.kind = "response" /\ o.status # 200
    \/ o.kind = "response" /\ ~o.body.json
    \/ ChoicesMissing(o)
    \/ ContentMissing(o)
    \/ /\ fmt = "json_schema"
       /\ HasContentText(o)
       /\ JsonLoads(ContentText(o)).exc # "none"

\* C6: for every backend outcome of a single call, llm_call and
\* analyze_record never raise to the caller, and on a timeout, a connection
\* failure, a non-success status, a non-JSON body, missing or empty
\* choices, missing or empty content, or unparseable content under a
\* schema they return None.
C6_FailuresReturnNone ==
    /\ gw_pc # "raised"
    /\ (gw_pc = "returned" /\ GatewayFailure(gw_response, gw_format))
           => gw_result = PyNone

C6_Witness ==
    /\ gw_pc = "returned"
    /\ gw_entry = "llm_call"
    /\ gw_format = "json_schema"
    /\ HasContentText(gw_response)
    /\ JsonLoads(ContentText(gw_response)).exc = "JSONDecodeError"
    /\ gw_result = PyNone

\* The client lacks the credential or the base endpoint.
Misconfigured(c) == ~Truthy(c.api_key) \/ ~Truthy(c.base_url)

\* C7 (as claimed): a missing credential or endpoint makes construction
\* fail, so no constructed client lacks one.
C7_NoMisconfiguredClientExists ==
    client.constructed => ~Misconfigured(client)

\* C7 (amended): construction never fails; a client constructed without a
\* credential or without a base endpoint exists and is called, each call on
\* it returns None without issuing a backend request, and the run is not
\* aborted: its records are processed.
C7_MisconfiguredClientReturnsNone ==
    /\ pc # "construct" => client.constructed
    /\ (client.constructed /\ Misconfigured(client))
           => /\ pc # "raised"
              /\ gw_pc # "idle" => /\ gw_pc = "returned"
                                   /\ gw_result = PyNone
                                   /\ call_requests = 0

C7_Witness ==
    /\ client.constructed
    /\ ~Truthy(client.api_key)
    /\ Truthy(client.base_url)
    /\ pc = "done"
    /\ processed_records_count = 2
    /\ calls >= 2

\* C8: with a schema the call returns the parsed JSON value or None, never
\* the raw text; without one it returns the trimmed raw text or None, never
\* a parsed structure.
C8_ResultKindFollowsSchema ==
    gw_pc = "returned" =>
        \/ gw_result = PyNone
        \/ /\ HasContentText(gw_response)
           /\ LET text == ContentText(gw_response)
              IN IF gw_format \in {"json_schema", "json_object"}
                 THEN /\ JsonLoads(text).exc = "none"
                      /\ gw_result = JsonLoads(text).val
                      /\ gw_result \notin {PyStr(text), PyStr(Strip(text))}
                 ELSE gw_result = PyStr(Strip(text))

C8_Witness ==
    /\ gw_pc = "returned"
    /\ gw_format = "None"
    /\ HasContentText(gw_response)
    /\ JsonLoads(ContentText(gw_response)).exc = "none"
    /\ JsonLoads(ContentText(gw_response)).val.k = "dict"
    /\ Strip(ContentText(gw_response)) # ContentText(gw_response)
    /\ gw_result = PyStr(Strip(ContentText(gw_response)))

(***************************************************************************)
(* Properties of the per-chunk analysis.                                   *)
(***************************************************************************)
\* C9 (as claimed): every chunk of a record whose chunk loop has ended got
\* exactly one Gateway call.
C9_EveryChunkCalledExactlyOnce ==
    pc \in {"write", "await_summary"} =>
        \A k \in 1..Len(content_chunks) : chunk_calls[k] = 1

C9_NoSecondCall ==
    /\ call_requests <= 1
    /\ \A k \in 1..Len(chunk_calls) :
          /\ chunk_calls[k] <= 1
          /\ k <= chunk_index
                => chunk_calls[k] = IF prompt_has_user THEN 1 ELSE 0
          /\ k > chunk_index + 1 => chunk_calls[k] = 0

C9_LoopMovesOn ==
    [][(pc = "await_chunk" /\ pc' = "chunks")
          => chunk_index' = chunk_index + 1]_vars

C9_FailedChunkContributesNothing ==
    [][(pc = "await_chunk" /\ pc' # "await_chunk" /\ gw_result = PyNone)
          => /\ pc' = "chunks"
             /\ UNCHANGED <<chunk_descriptions, chunk_categories,
                            chunk_topics>>]_vars

\* C9 (amended): no retries: a Gateway call issues at most one backend
\* request; a chunk gets at most one Gateway call, exactly one when the
\* per-chunk template has a user message and none when it has not; a chunk
\* whose call failed adds nothing to the record's descriptions, categories
\* and topics, and the loop moves on to the next chunk, never back.
C9_NoRetries ==
    /\ []C9_NoSecondCall
    /\ C9_LoopMovesOn
    /\ C9_FailedChunkContributesNothing

C9_Witness ==
    /\ pc = "write"
    /\ Configured(client)
    /\ prompt_has_user
    /\ rec_index = 0
    /\ chunk_calls = <<1, 1, 1>>
    /\ calls = 3
    /\ chunk_descriptions = <<>>

\* The result holds description, category and topics.
HasAllFields(r) ==
    /\ r.k = "dict"
    /\ {"description", "category", "topics"} \subseteq DOMAIN r.v

IsPrefix(s, t) == Len(s) <= Len(t) /\ SubSeq(t, 1, Len(s)) = s

C10_ListsInStep ==
    /\ Len(chunk_descriptions) = Len(chunk_categories)
    /\ pc \in {"chunks", "await_chunk", "await_summary", "write"}
          => /\ Len(chunk_descriptions) <= chunk_index
             /\ chunk_index <= Len(content_chunks)

C10_ChunkStep ==
    [][IF pc = "await_chunk" /\ pc' # "await_chunk" /\ HasAllFields(gw_result)
       THEN /\ chunk_descriptions' =
                  Append(chunk_descriptions, gw_result.v.description)
            /\ chunk_categories' =
                  Append(chunk_categories, gw_result.v.category)
            /\ IsPrefix(chunk_topics, chunk_topics')
       ELSE pc \in {"chunks", "await_chunk", "await_summary"} =>
               UNCHANGED <<chunk_descriptions, chunk_categories, chunk_topics>>
      ]_vars

\* C10: a chunk whose result has description, category and topics appends
\* exactly one description and one category (and only adds topics); a
\* chunk whose call failed or whose result lacks a field leaves the three
\* sequences unchanged; so the descriptions and categories have the same
\* length, at most the number of chunks gone past.
C10_AllOrNothing == []C10_ListsInStep /\ C10_ChunkStep

C10_Witness ==
    /\ pc = "chunks"
    /\ Len(content_chunks) = 3
    /\ chunk_index = 3
    /\ chunk_calls = <<1, 1, 1>>
    /\ Len(chunk_descriptions) = 1
    /\ Len(chunk_categories) = 1
    /\ Len(chunk_topics) = 2

(***************************************************************************)
(* Properties of the record loop and the consolidation.                    *)
(***************************************************************************)
\* C11: whatever the Gateway returns for a record's calls (failures, JSON
\* that is no object, objects with missing or odd values), analyze_history
\* does not raise, and a finished run has gone past every record.
C11_OneBadPageNeverAborts ==
    /\ pc # "raised"
    /\ pc = "done" => rec_index = Len(history_records)

\* The chunk loop of the record is over and no chunk gave an analysis.
AllChunksFailed ==
    /\ pc = "write"
    /\ chunk_index = Len(content_chunks)
    /\ chunk_descriptions = <<>>

\* C12: a record all of whose chunks failed is consolidated without a
\* Gateway call and has no description; its step to the next record leaves
\* the output file, and so the category and topic counts extracted from it,
\* as they were.
C12_FailedRecordLeavesNoTrace ==
    [][AllChunksFailed
          => /\ summary_calls = 0
             /\ final_description = PyNone
             /\ md_file' = md_file
             /\ written' = written
             /\ Extract(md_file') = Extract(md_file)]_vars

C12_Witness ==
    /\ AllChunksFailed
    /\ Configured(client)
    /\ chunk_calls = <<1, 1>>
    /\ rec_index = 1
    /\ md_file # <<>>

\* The topics of a result: none is no topics.
TopicsOf(topics) == IF topics = PyNone THEN <<>> ELSE topics.v

\* The positions of s that hold the first occurrence of their element.
FirstSeen(s) == {i \in 1..Len(s) : \A j \in 1..(i - 1) : s[j] # s[i]}

\* t is s without repeats, in first-seen order, cut to at most 3.
IsUniqueCapped(t, s) ==
    /\ Len(t) = Min(3, Cardinality(FirstSeen(s)))
    /\ \A k \in 1..Len(t) :
          \E i \in FirstSeen(s) :
             /\ Cardinality({j \in FirstSeen(s) : j < i}) = k - 1
             /\ t[k] = s[i]

\* C13: a record of one chunk whose analysis succeeded ends with that
\* chunk's description and category unchanged, with the chunk's topics
\* without repeats, in first-seen order and at most 3 of them, and without
\* any consolidation call.
C13_SingleChunkPassThrough ==
    /\ Len(content_chunks) = 1 => summary_calls = 0
    /\ (pc = "write" /\ Len(content_chunks) = 1 /\ chunk_descriptions # <<>>)
          => /\ final_description = chunk_descriptions[1]
             /\ final_category = chunk_categories[1]
             /\ final_topics \in {PyNone, PyList(TopicsOf(final_topics))}
             /\ IsUniqueCapped(TopicsOf(final_topics), chunk_topics)

C13_Witness ==
    /\ pc = "write"
    /\ Len(content_chunks) = 1
    /\ chunk_descriptions = <<Str(<<"d2">>)>>
    /\ Len(chunk_topics) = 5
    /\ final_description = Str(<<"d2">>)
    /\ final_category = Str(<<"c2">>)
    /\ final_topics = PyList(<<Str(<<"t2">>), Str(<<"t3">>), Str(<<"t4">>)>>)
    /\ calls = 1

RECURSIVE SumSeq(_)
SumSeq(s) == IF s = <<>> THEN 0 ELSE Head(s) + SumSeq(Tail(s))

\* The record needs a consolidation: several chunks, at least one analysis.
NeedsConsolidation == Len(content_chunks) > 1 /\ chunk_descriptions # <<>>

\* C14 (as claimed): a consolidated record of N > 1 chunks with at least
\* one analysis has had exactly one consolidation call and N + 1 Gateway
\* calls in all; any other record no consolidation call and N calls.
C14_OneConsolidationCall ==
    pc = "write"
       => /\ summary_calls = IF NeedsConsolidation THEN 1 ELSE 0
          /\ SumSeq(chunk_calls) + summary_calls =
                Len(content_chunks) + IF NeedsConsolidation THEN 1 ELSE 0

\* C14 (amended): a consolidation call is made only once all chunks are
\* past, for a record of N > 1 chunks with at least one analysis, and at
\* most once; it is made exactly when the summarization template has a user
\* message, however few of the chunks succeeded; the record has then caused
\* one Gateway call per chunk analyzed plus that call.
C14_ConsolidationCall ==
    /\ summary_calls \in {0, 1}
    /\ summary_calls = 1
          => /\ pc \in {"await_summary", "write", "raised"}
             /\ chunk_index = Len(content_chunks)
             /\ NeedsConsolidation
             /\ summarization_has_user
    /\ pc = "write"
          => /\ summary_calls =
                   IF NeedsConsolidation /\ summarization_has_user
                   THEN 1 ELSE 0
             /\ SumSeq(chunk_calls) =
                   IF prompt_has_user THEN Len(content_chunks) ELSE 0

C14_Witness ==
    /\ pc = "write"
    /\ Len(content_chunks) = 3
    /\ chunk_calls = <<1, 1, 1>>
    /\ Len(chunk_descriptions) = 1
    /\ summary_calls = 1
    /\ rec_index = 1
    /\ calls >= 4

\* The record's consolidation call returned an object with the three fields.
SummarySucceeded ==
    /\ pc = "write"
    /\ summary_calls = 1
    /\ HasAllFields(summary_result)

\* C15: when the consolidation call returns an object with description,
\* category and topics, the record's three final values are the returned
\* ones, the topics with their repeats and at their full length, the
\* description without a marker.
C15_SummaryTakenVerbatim ==
    SummarySucceeded
       => /\ final_description = summary_result.v.description
          /\ final_category = summary_result.v.category
          /\ final_topics = summary_result.v.topics

C15_Witness ==
    /\ SummarySucceeded
    /\ final_description = Str(<<"d2">>)
    /\ final_category = Str(<<"c2">>)
    /\ final_topics = PyList(<<Str(<<"t2">>), Str(<<"t3">>), Str(<<"t2">>),
                               Str(<<"t4">>), Str(<<"t1">>)>>)
    /\ chunk_descriptions = <<Str(<<"d1">>), Str(<<"d1">>)>>

\* The record's consolidation call failed, or returned something that is
\* not an object with the three fields.
SummaryFailed ==
    /\ pc = "write"
    /\ summary_calls = 1
    /\ ~HasAllFields(summary_result)

\* C16: when the consolidation call fails or its result lacks a field, the
\* final description is the first collected (lowest-index successful)
\* chunk description followed by " (Summarization failed)", and the final
\* topics are the collected chunk topics without repeats, in first-seen
\* order, at most 3 (none when no chunk gave a topic): both are functions
\* of the chunk analyses alone.
C16_FallbackFromChunks ==
    SummaryFailed
       => /\ final_description =
                PyStr(chunk_descriptions[1].v
                        \o <<Ws, Sym("(Summarization failed)")>>)
          /\ final_topics \in {PyNone, PyList(TopicsOf(final_topics))}
          /\ IsUniqueCapped(TopicsOf(final_topics), chunk_topics)

C16_Witness ==
    /\ SummaryFailed
    /\ summary_result = PyNone
    /\ chunk_descriptions = <<Str(<<"d1">>), Str(<<"d2">>)>>
    /\ Len(chunk_topics) = 7
    /\ final_description =
          Str(<<"d1", " ", "(Summarization failed)">>)
    /\ final_topics = PyList(<<Str(<<"t1">>), Str(<<"t2">>), Str(<<"t3">>)>>)

\* c is a most frequent element of s, and of the most frequent ones the
\* one that occurs first.
IsFirstMode(c, s) ==
    \E i \in 1..Len(s) :
       /\ s[i] = c
       /\ \A j \in 1..Len(s) :
             LET nj == Cardinality({x \in 1..Len(s) : s[x] = s[j]})
                 ni == Cardinality({x \in 1..Len(s) : s[x] = c})
             IN /\ nj <= ni
                /\ (nj = ni /\ s[j] # c)
                      => \E x \in 1..(j - 1) : s[x] = c

\* C17: when the consolidation call fails, the final category is the most
\* frequent of the collected chunk categories, the first encountered one
\* among the equally frequent.
C17_FallbackCategoryIsFirstMode ==
    SummaryFailed => IsFirstMode(final_category, chunk_categories)

C17_Witness ==
    /\ SummaryFailed
    /\ chunk_categories = <<Str(<<"c2">>), Str(<<"c1">>)>>
    /\ final_category = Str(<<"c2">>)

\* C18: a record with at least one chunk analysis that has a description
\* is written to the output, with a description, when the loop leaves it,
\* whatever the consolidation returned.
C18_AnyChunkSuccessIsWritten ==
    [][(/\ pc = "write"
        /\ \E i \in 1..Len(chunk_descriptions) : Truthy(chunk_descriptions[i]))
          => /\ Len(written') = Len(written) + 1
             /\ Truthy(Last(written').description)
             /\ md_file' # md_file]_vars

\* The lines among `lines` that start a block.
TitleLines(lines) ==
    {i \in 1..Len(lines) : lines[i] # <<>> /\ lines[i][1] = Sym("Title:")}

\* The block starting at line i has a line with this key before its end.
BlockHasLine(lines, i, key) ==
    \E j \in (i + 1)..Len(lines) :
       /\ lines[j] # <<>>
       /\ lines[j][1] = Sym(key)
       /\ \A x \in (i + 1)..j : x \notin TitleLines(lines)

\* C19: once a record is left, the output file holds one block per analysis
\* written; each block has, after its Title and URL lines, a Description
\* line with a non-empty text, the description of the analysis; no analysis
\* written has an absent or empty description.
C19_WrittenBlocksHaveDescription ==
    pc = "record_loop" =>
       LET lines == FileLines(md_file)
           titles == TitleLines(lines)
       IN /\ Cardinality(titles) = Len(written)
          /\ \A k \in 1..Len(written) : Truthy(written[k].description)
          /\ \A i \in titles :
                LET k == Cardinality({j \in titles : j <= i})
                IN /\ i + 2 <= Len(lines)
                   /\ lines[i + 1][1] = Sym("URL:")
                   /\ Len(lines[i + 2]) > 2
                   /\ lines[i + 2] = <<Sym("Description:"), Ws>>
                                        \o Format(written[k].description)

\* Two blocks: one without Category and Topics, one with both.
C19_Witness ==
    /\ pc = "record_loop"
    /\ Len(written) = 2
    /\ LET lines == FileLines(md_file)
       IN /\ \E i \in TitleLines(lines) :
                /\ ~BlockHasLine(lines, i, "Category:")
                /\ ~BlockHasLine(lines, i, "Topics:")
          /\ \E i \in TitleLines(lines) :
                /\ BlockHasLine(lines, i, "Category:")
                /\ BlockHasLine(lines, i, "Topics:")

\* The topic texts of an analysis: the elements of a list, a str as the
\* one topic it is.
TopicTexts(topics) ==
    CASE topics.k = "list" ->
            {Format(topics.v[i]) : i \in 1..Len(topics.v)}
      [] topics.k = "str" -> {topics.v}
      [] OTHER -> {}

\* The written analyses that have the category text c.
WithCategory(c) ==
    {k \in 1..Len(written) : Truthy(written[k].category)
                                /\ Format(written[k].category) = c}

\* The written analyses that have the topic text t.
WithTopic(t) ==
    {k \in 1..Len(written) : t \in TopicTexts(written[k].topics)}

\* The texts of the categories and of the topics of the written analyses.
WrittenCategories ==
    {Format(written[k].category) :
        k \in {x \in 1..Len(written) : Truthy(written[x].category)}}

WrittenTopics ==
    UNION {TopicTexts(written[k].topics) : k \in 1..Len(written)}

\* C20: the counts extracted from the output of a run hold, for each
\* category, the number of written analyses with that category, and for
\* each topic the number of written analyses with that topic, and nothing
\* else; so the category counts add up to the number of written analyses
\* that have a category.
C20_CountsOncePerWrittenRecord ==
    pc = "extracted" =>
       /\ DOMAIN category_counter = WrittenCategories
       /\ \A c \in WrittenCategories :
             category_counter[c] = Cardinality(WithCategory(c))
       /\ DOMAIN topic_counter = WrittenTopics
       /\ \A t \in WrittenTopics :
             topic_counter[t] = Cardinality(WithTopic(t))

(***************************************************************************)
(* Runs of analyze_history over inputs that may be missing or malformed,   *)
(* and over an output file that may be there from an earlier run of the    *)
(* day.                                                                    *)
(***************************************************************************)
MaxSetupLen == 2

\* A prompt file: absent, not JSON, without "messages", without
\* "response_schema", or complete.
PromptFiles ==
    {NoFile, PromptFile(FALSE, FALSE, FALSE), PromptFile(TRUE, FALSE, TRUE),
     PromptFile(TRUE, TRUE, FALSE), PromptFile(TRUE, TRUE, TRUE)}

\* The block an earlier run of the day has left in the output file.
OldText ==
    MarkdownBlock(Str(<<"old">>), Str(<<"url">>), Str(<<"d0">>), PyNone, PyNone)

\* The caller is about to construct the client and to call analyze_history.
RunStart ==
    /\ pc = "construct"
    /\ client = NoClient
    /\ GatewayIdle
    /\ history_records = <<>>
    /\ full_content = <<>>
    /\ start = 0
    /\ content_chunks = <<>>
    /\ starts = <<>>
    /\ rec_index = 0
    /\ chunk_index = 0
    /\ chunk_descriptions = <<>>
    /\ chunk_categories = <<>>
    /\ chunk_topics = <<>>
    /\ chunk_calls = <<>>
    /\ final_description = PyNone
    /\ final_category = PyNone
    /\ final_topics = PyNone
    /\ summary_result = Unbound
    /\ processed_records_count = 0
    /\ summary_calls = 0
    /\ written = <<>>
    /\ described = <<>>
    /\ category_counter = <<>>
    /\ topic_counter = <<>>
    /\ original_topics = <<>>
    /\ report_topics = <<>>

InitSetup ==
    /\ RunStart
    /\ db_exists \in BOOLEAN
    /\ prompt_file \in PromptFiles
    /\ summarization_file \in PromptFiles
    /\ prompt_user = PromptUser
    /\ summarization_user = SummarizationUser
    /\ prompt_has_user = TRUE
    /\ summarization_has_user = TRUE
    /\ db_rows \in {h \in Histories : TotalLen(h) <= MaxSetupLen}
    /\ \/ md_exists = FALSE /\ md_file = <<>>
       \/ md_exists = TRUE /\ md_file = OldText
    /\ max_content_length \in 1..MaxRecChunkLen
    /\ chunk_overlap = 0

SpecSetup == InitSetup /\ [][Next]_vars

(***************************************************************************)
(* Runs of analyze_history over prompt templates whose user message may    *)
(* lack a placeholder.                                                     *)
(***************************************************************************)
\* User messages of the per-chunk template: complete, without [Title],
\* without [Text content].
PromptUsers ==
    {PromptUser,
     <<Sym("Analyze"), Ws, Sym("[Text content]")>>,
     <<Sym("Analyze"), Ws, Sym("[Title]")>>}

\* User messages of the summarization template: complete, and without
\* {combined_topics}.
SummarizationUsers ==
    {SummarizationUser,
     <<Sym("{combined_descriptions}"), Ws, Sym("{combined_categories}")>>}

InitTemplates ==
    /\ RunStart
    /\ db_exists = TRUE
    /\ prompt_file = PromptFile(TRUE, TRUE, TRUE)
    /\ summarization_file = PromptFile(TRUE, TRUE, TRUE)
    /\ prompt_user \in PromptUsers
    /\ summarization_user \in SummarizationUsers
    /\ prompt_has_user = TRUE
    /\ summarization_has_user = TRUE
    /\ db_rows \in {h \in Histories : Len(h) <= 1 /\ TotalLen(h) <= MaxSetupLen}
    /\ md_exists = FALSE
    /\ md_file = <<>>
    /\ max_content_length \in 1..MaxRecChunkLen
    /\ chunk_overlap = 0

SpecTemplates == InitTemplates /\ [][Next]_vars

(***************************************************************************)
(* generate_html_report, report_generator.py 262-285: topics that differ   *)
(* only in case are merged.  A dict is a sequence of <<key, count>> pairs  *)
(* in insertion order; a topic is a sequence of characters.                *)
(***************************************************************************)
\* The letters of the topics, as <<lower case, upper case>>.
Letters == {<<"a", "A">>, <<"i", "I">>}

IsCased(ch) == \E l \in Letters : ch.c \in {l[1], l[2]}

LowerChar(ch) ==
    IF \E l \in Letters : ch.c = l[2]
    THEN Sym((CHOOSE l \in Letters : ch.c = l[2])[1])
    ELSE ch

UpperChar(ch) ==
    IF \E l \in Letters : ch.c = l[1]
    THEN Sym((CHOOSE l \in Letters : ch.c = l[1])[2])
    ELSE ch

\* str.lower()
Lower(s) == [i \in 1..Len(s) |-> LowerChar(s[i])]

\* A mutant of Title: the topic is kept as it is spelled.
TitleAsSpelled(s) == s

\* str.title(): a letter that follows a letter is lowered, any other letter
\* is raised.
Title(s) ==
    [i \in 1..Len(s) |->
        IF i > 1 /\ IsCased(s[i - 1]) THEN LowerChar(s[i]) ELSE UpperChar(s[i])]

\* key in d
HasKey(d, key) == \E i \in 1..Len(d) : d[i][1] = key

\* d.get(key, 0)
GetCount(d, key) ==
    IF HasKey(d, key) THEN d[CHOOSE i \in 1..Len(d) : d[i][1] = key][2] ELSE 0

\* d[key] = count: an existing key keeps its place, a new one goes last.
SetCount(d, key, count) ==
    IF HasKey(d, key)
    THEN [i \in 1..Len(d) |-> IF d[i][1] = key THEN <<key, count>> ELSE d[i]]
    ELSE Append(d, <<key, count>>)

\* Lines 265-281 for one item of original_topics.
MergeTopic(topics, topic, count) ==
    LET normalized_topic == Lower(topic)
        final_topic_key == Title(topic)
        added == SetCount(topics, final_topic_key,
                          GetCount(topics, final_topic_key) + count)
    IN IF HasKey(topics, normalized_topic)
       THEN IF \E i \in 1..Len(topics) : Lower(topics[i][1]) = normalized_topic
            THEN LET i == CHOOSE i \in 1..Len(topics) :
                            /\ Lower(topics[i][1]) = normalized_topic
                            /\ \A j \in 1..(i - 1) :
                                   Lower(topics[j][1]) # normalized_topic
                 IN SetCount(topics, topics[i][1], topics[i][2] + count)
            ELSE added
       ELSE added

\* Lines 263-281: the loop over original_topics.items().
RECURSIVE MergeTopics(_, _)
MergeTopics(topics, items) ==
    IF items = <<>> THEN topics
    ELSE MergeTopics(MergeTopic(topics, Head(items)[1], Head(items)[2]),
                     Tail(items))

\* The deduplication of generate_html_report.
DeduplicateTopics ==
    /\ pc = "report"
    /\ report_topics' = MergeTopics(<<>>, original_topics)
    /\ pc' = "merged"
    /\ UNCHANGED <<chunkVars, client, gwVars, configVars, analysisVars,
                   finalVars, recVars, original_topics>>

MaxTopics == 3

\* Topics of the extracted data: spellings of "ai" and of "a i", and "7".
ReportTopics ==
    {Chars(<<"a", "i">>), Chars(<<"A", "I">>), Chars(<<"A", "i">>),
     Chars(<<"a", "I">>), Chars(<<"a", " ", "i">>), Chars(<<"A", " ", "I">>),
     Chars(<<"i">>), Chars(<<"7">>)}

ReportCounts == {1, 2}

\* The keys of a JSON object are distinct.
DistinctKeys(d) == \A i, j \in 1..Len(d) : d[i][1] = d[j][1] => i = j

InitReport ==
    /\ pc = "report"
    /\ client = NoClient
    /\ GatewayIdle
    /\ InputsGood
    /\ db_rows = <<>>
    /\ md_exists = FALSE
    /\ history_records = <<>>
    /\ rec_index = 0
    /\ prompt_has_user = TRUE
    /\ summarization_has_user = TRUE
    /\ chunk_index = 0
    /\ chunk_descriptions = <<>>
    /\ chunk_categories = <<>>
    /\ chunk_topics = <<>>
    /\ chunk_calls = <<>>
    /\ final_description = PyNone
    /\ final_category = PyNone
    /\ final_topics = PyNone
    /\ summary_result = Unbound
    /\ processed_records_count = 0
    /\ summary_calls = 0
    /\ md_file = <<>>
    /\ written = <<>>
    /\ described = <<>>
    /\ category_counter = <<>>
    /\ topic_counter = <<>>
    /\ full_content = <<>>
    /\ max_content_length = 1
    /\ chunk_overlap = 0
    /\ start = 0
    /\ content_chunks = <<>>
    /\ starts = <<>>
    /\ original_topics \in
           {d \in SeqsUpTo(ReportTopics \X ReportCounts, MaxTopics) :
                DistinctKeys(d)}
    /\ report_topics = <<>>

NextReport == DeduplicateTopics

SpecReport == InitReport /\ [][NextReport]_vars

(***************************************************************************)
(* Properties of the report's topic merge.                                 *)
(***************************************************************************)
Merged == pc = "merged"

\* The counts of the items of d whose key is spelled like key, case aside.
RECURSIVE ClassCount(_, _)
ClassCount(d, key) ==
    IF d = <<>> THEN 0
    ELSE (IF Lower(Head(d)[1]) = Lower(key) THEN Head(d)[2] ELSE 0)
         + ClassCount(Tail(d), key)

\* The first item of d whose key is spelled like key, case aside.
FirstVariant(d, key) ==
    d[CHOOSE i \in 1..Len(d) :
          /\ Lower(d[i][1]) = Lower(key)
          /\ \A j \in 1..(i - 1) : Lower(d[j][1]) # Lower(key)][1]

\* The sum of the counts of d.
RECURSIVE TotalCount(_)
TotalCount(d) == IF d = <<>> THEN 0 ELSE Head(d)[2] + TotalCount(Tail(d))

\* C21: the merged topic map has at most one key per case-insensitive class
\* of topics, the key is the title-cased form of the first-seen variant, its
\* count is the sum of the counts of the class ("AI" then "ai" gives
\* "Ai": 2), every class of the input has its key, and the total of the
\* counts is preserved.
C21_TopicsMergedByCase ==
    Merged =>
        /\ \A i, j \in 1..Len(report_topics) :
               Lower(report_topics[i][1]) = Lower(report_topics[j][1]) => i = j
        /\ \A i \in 1..Len(report_topics) :
               /\ \E k \in 1..Len(original_topics) :
                      Lower(original_topics[k][1]) = Lower(report_topics[i][1])
               /\ report_topics[i][1]
                      = Title(FirstVariant(original_topics, report_topics[i][1]))
               /\ report_topics[i][2]
                      = ClassCount(original_topics, report_topics[i][1])
        /\ \A k \in 1..Len(original_topics) :
               \E i \in 1..Len(report_topics) :
                   Lower(report_topics[i][1]) = Lower(original_topics[k][1])
        /\ TotalCount(report_topics) = TotalCount(original_topics)

C21_Witness ==
    /\ Merged
    /\ original_topics = <<<<Chars(<<"A", "I">>), 1>>, <<Chars(<<"a", "i">>), 1>>>>
    /\ report_topics = <<<<Chars(<<"A", "i">>), 2>>>>

(***************************************************************************)
(* Properties of the output file.                                          *)
(***************************************************************************)
\* text begins with the text prefix.
StartsWith(text, prefix) ==
    Len(text) >= Len(prefix) /\ SubSeq(text, 1, Len(prefix)) = prefix

\* text without its first n symbols.
Drop(text, n) == SubSeq(text, n + 1, Len(text))

\* The lines every block begins with: Title, URL, Description and, for a
\* record with a category, Category.
BlockHead(title, url, w) ==
    Line("Title:", Format(title))
    \o Line("URL:", Format(url))
    \o Line("Description:", Format(w.description))
    \o (IF Truthy(w.category) THEN Line("Category:", Format(w.category))
        ELSE <<>>)

\* text is the complete blocks of the analyses ws, one after another: each
\* has its head, a Topics line if the record has topics, and the separator.
RECURSIVE CompleteBlocks(_, _)
CompleteBlocks(text, ws) ==
    IF ws = <<>> THEN text = <<>>
    ELSE LET head == BlockHead(Str(<<"title">>), Str(<<"url">>), Head(ws))
             rest == Drop(text, Len(head))
         IN /\ StartsWith(text, head)
            /\ IF ~Truthy(Head(ws).topics)
               THEN /\ StartsWith(rest, Separator)
                    /\ CompleteBlocks(Drop(rest, Len(Separator)), Tail(ws))
               ELSE /\ StartsWith(rest, <<Sym("Topics:"), Ws>>)
                    /\ \E n \in 3..Len(rest) :
                           /\ rest[n] = NL
                           /\ \A m \in 1..(n - 1) : rest[m] # NL
                           /\ StartsWith(Drop(rest, n), Separator)
                           /\ CompleteBlocks(Drop(rest, n + Len(Separator)),
                                             Tail(ws))

\* C22: every block appended to the output file is complete and in the fixed
\* order Title, URL, Description, Category if any, Topics if any, separator;
\* no block is left without its separator, also when the final topics hold
\* values that are not strings.
C22_BlocksComplete == CompleteBlocks(md_file, written)

(***************************************************************************)
(* Properties of the start of analyze_history.                             *)
(***************************************************************************)
\* A prompt file that is JSON but lacks "messages" or "response_schema".
LacksKey(file) ==
    file.exists /\ file.json /\ (~file.messages \/ ~file.response_schema)

\* The database file or a prompt file is missing, or a prompt file lacks
\* one of the two keys.
BadInputs ==
    \/ ~db_exists
    \/ ~prompt_file.exists
    \/ ~summarization_file.exists
    \/ LacksKey(prompt_file)
    \/ LacksKey(summarization_file)

\* C23: with a missing database file, a missing per-chunk or summarization
\* prompt file, or a prompt file without "messages" or "response_schema",
\* analyze_history raises before any record is fetched, before any gateway
\* call, and before the output file is emptied or created.
C23_BadInputsRaiseFirst ==
    BadInputs =>
        /\ pc \in {"construct", "start", "raised"}
        /\ history_records = <<>>
        /\ calls = 0
        /\ gw_pc = "idle"
        /\ md_file = (IF md_exists THEN OldText ELSE <<>>)
        /\ written = <<>>

C23_Witness ==
    /\ pc = "raised"
    /\ db_exists
    /\ prompt_file.exists
    /\ LacksKey(summarization_file)
    /\ db_rows # <<>>
    /\ md_exists
    /\ md_file = OldText

(***************************************************************************)
(* Properties of the record loop's accounting and ordering.                *)
(***************************************************************************)
\* The records among the first n fetched that have content.
WithContent(n) == {k \in 1..n : history_records[k].content # <<>>}

\* C24: a record without content is skipped before chunking: it gets no
\* chunk, no gateway call and no block and is not counted as processed
\* (content is held, chunks exist and a call is under way only for a record
\* with content); every other record is counted exactly once, when its
\* handling finishes, whether or not it got a description; so at the end of
\* a complete run the processed and the skipped records add up to the
\* fetched ones.
C24_SkippedOrProcessed ==
    /\ processed_records_count = Cardinality(WithContent(rec_index))
    /\ \A k \in 1..Len(written) : written[k].record \in WithContent(rec_index)
    /\ (full_content # <<>> \/ content_chunks # <<>> \/ gw_pc # "idle") =>
          /\ rec_index + 1 \in WithContent(Len(history_records))
          /\ full_content = history_records[rec_index + 1].content
    /\ pc = "done" =>
          /\ rec_index = Len(history_records)
          /\ processed_records_count
               + Cardinality((1..Len(history_records))
                                 \ WithContent(Len(history_records)))
             = Len(history_records)

C24_Witness ==
    /\ pc = "done"
    /\ Len(history_records) = 2
    /\ history_records[1].content = <<>>
    /\ history_records[2].content # <<>>
    /\ processed_records_count = 1
    /\ written = <<>>

\* C25: the run is strictly sequential: at most one gateway call is
\* outstanding; the calls of a record are made in increasing chunk order,
\* each after the one before has returned; the consolidation call is made
\* only after every chunk has been gone through; and a call is made for a
\* record only after every record before it was written or dropped.
C25_StrictlySequential ==
    /\ call_requests <= 1
    /\ gw_pc # "idle" <=> pc \in {"await_chunk", "await_summary"}
    /\ \A j \in 1..Len(chunk_calls) :
          /\ chunk_calls[j] <= 1
          /\ j > chunk_index + 1 => chunk_calls[j] = 0
          /\ (j = chunk_index + 1 /\ chunk_calls[j] = 1)
                => pc \in {"await_chunk", "raised"}
    /\ pc = "await_chunk" => /\ gw_entry = "analyze_record"
                             /\ chunk_calls[chunk_index + 1] = 1
                             /\ summary_calls = 0
    /\ summary_calls <= 1
    /\ summary_calls = 1 => /\ chunk_index = Len(content_chunks)
                            /\ pc \in {"await_summary", "write", "raised"}
    /\ pc = "await_summary" => gw_entry = "llm_call" /\ summary_calls = 1
    /\ gw_pc # "idle" =>
          /\ processed_records_count = Cardinality(WithContent(rec_index))
          /\ Len(written) <= rec_index
          /\ \A k \in 1..Len(written) : written[k].record <= rec_index

C25_Witness ==
    /\ pc = "await_summary"
    /\ gw_pc = "posted"
    /\ rec_index = 1
    /\ Len(written) = 1
    /\ chunk_calls = <<1, 1>>

(***************************************************************************)
(* Properties of the prompt templates.                                     *)
(***************************************************************************)
\* The record had several chunks, some analysis was collected, and the
\* record has reached the write.
Consolidated ==
    /\ pc = "write"
    /\ Len(content_chunks) > 1
    /\ chunk_descriptions # <<>>

\* C26: a template without a user message never causes a gateway call for
\* its step.  Per-chunk template: no call at all is made, every chunk is
\* skipped and the record ends with no result.  Summarization template: no
\* consolidation call is made and the record gets the fallback: the first
\* collected description plus " (Summarization failed - template error)",
\* the most frequent category (the first of equally frequent ones) and at
\* most 3 topics without repeats.
C26_NoUserMessageNoCall ==
    /\ ~prompt_has_user =>
          /\ calls = 0
          /\ gw_pc = "idle"
          /\ \A j \in 1..Len(chunk_calls) : chunk_calls[j] = 0
          /\ chunk_descriptions = <<>>
          /\ pc = "write" => final_description = PyNone
          /\ written = <<>>
    /\ ~summarization_has_user =>
          /\ summary_calls = 0
          /\ pc # "await_summary"
          /\ gw_entry # "llm_call"
          /\ Consolidated =>
                /\ final_description =
                      PyStr(chunk_descriptions[1].v
                              \o <<Ws, Sym("(Summarization failed - template error)")>>)
                /\ IsFirstMode(final_category, chunk_categories)
                /\ final_topics \in {PyNone, PyList(TopicsOf(final_topics))}
                /\ IsUniqueCapped(TopicsOf(final_topics), chunk_topics)

C26_Witness ==
    /\ Consolidated
    /\ prompt_has_user
    /\ ~summarization_has_user
    /\ chunk_calls = <<1, 1>>
    /\ chunk_descriptions = <<Str(<<"d2">>), Str(<<"d1">>)>>
    /\ final_description =
          Str(<<"d2", " ", "(Summarization failed - template error)">>)

\* The text holds the placeholder.
HasPlaceholder(text, placeholder) ==
    \E i \in 1..Len(text) : text[i] = Sym(placeholder)

ChunkPlaceholders == {"[Title]", "[Text content]"}

SummaryPlaceholders ==
    {"{combined_descriptions}", "{combined_categories}", "{combined_topics}"}

\* The user message of the template lacks one of the placeholders.
LacksPlaceholder(text, placeholders) ==
    \E p \in placeholders : ~HasPlaceholder(text, p)

\* The text part occurs in text.
HoldsText(text, part) ==
    \E i \in 0..(Len(text) - Len(part)) :
        SubSeq(text, i + 1, i + Len(part)) = part

\* C27: a user message that lacks a required placeholder is a recoverable
\* template error: with a per-chunk template that lacks [Title] or
\* [Text content] no chunk is sent and none is analyzed; with a
\* summarization template that lacks one of its three placeholders no
\* consolidation call is made; so every prompt that is sent holds the data
\* it is about (title and chunk text, or the three combined lists).
C27_MissingPlaceholderNoCall ==
    /\ LacksPlaceholder(prompt_user, ChunkPlaceholders) =>
          /\ pc # "await_chunk"
          /\ \A j \in 1..Len(chunk_calls) : chunk_calls[j] = 0
          /\ chunk_descriptions = <<>>
    /\ LacksPlaceholder(summarization_user, SummaryPlaceholders) =>
          /\ pc # "await_summary"
          /\ summary_calls = 0
    /\ pc = "await_chunk" =>
          /\ HoldsText(gw_messages, history_records[rec_index + 1].title.v)
          /\ HoldsText(gw_messages, Chars(content_chunks[chunk_index + 1]))
    /\ pc = "await_summary" =>
          /\ HoldsText(gw_messages, BulletList(chunk_descriptions))
          /\ HoldsText(gw_messages, BulletList(chunk_categories))
          /\ HoldsText(gw_messages, BulletList(Dedup(chunk_topics)))

(***************************************************************************)
(* Properties of the client's endpoint.                                    *)
(***************************************************************************)
\* C28: for every non-empty base url the chat endpoint ends in
\* /v1/chat/completions and holds /v1 exactly once: for a base with or
\* without a trailing slash, for a base that ends in /v1 or /v1/, and for
\* an api.openai.com base without /v1.
C28_EndpointHasV1Once ==
    (client.constructed /\ Truthy(client.base_url)) =>
        LET endpoint == client.chat_endpoint.v
            tail == <<Sym("/"), Sym("v1"), Sym("/"), Sym("chat"), Sym("/"),
                      Sym("completions")>>
        IN /\ client.has_endpoint
           /\ Len(endpoint) >= Len(tail)
           /\ SubSeq(endpoint, Len(endpoint) - Len(tail) + 1, Len(endpoint))
                 = tail
           /\ Cardinality({i \in 1..Len(endpoint) : endpoint[i] = Sym("v1")})
                 = 1

(***************************************************************************)
(* Properties of the output file of a run.                                 *)
(***************************************************************************)
\* The run is over without an exception.
Completed == pc \in {"done", "extracted", "extract_raised"}

\* The blocks of the analyses ws of the fetched records, one after another.
RECURSIVE BlocksOf(_)
BlocksOf(ws) ==
    IF ws = <<>> THEN <<>>
    ELSE MarkdownBlock(history_records[Head(ws).record].title,
                       history_records[Head(ws).record].url,
                       Head(ws).description, Head(ws).category, Head(ws).topics)
         \o BlocksOf(Tail(ws))

\* C29: after a run that completes, the output file holds one block for
\* each fetched record that ended with a non-empty description, in fetch
\* order, and nothing else: what an earlier run left in the file is gone,
\* and no record is written twice.
C29_OneBlockPerDescribedRecord ==
    Completed =>
        /\ [k \in 1..Len(written) |-> written[k].record] = described
        /\ \A i, j \in 1..Len(described) : i < j => described[i] < described[j]
        /\ \A i \in 1..Len(described) : described[i] \in 1..Len(history_records)
        /\ md_file = BlocksOf(written)

C29_Witness ==
    /\ pc = "done"
    /\ md_exists
    /\ Len(history_records) = 2
    /\ described = <<1, 2>>
    /\ ~StartsWith(md_file, OldText)
    /\ md_file # <<>>

(***************************************************************************)
(* Properties of the round trip of the topics through the output file.     *)
(***************************************************************************)
\* The topics the extractor reads from the Topics line that the write step
\* makes of the topics of an analysis.
TopicsReadBack(topics) ==
    LET line == FileLines(Line("Topics:", Join(topics).val.v))[1]
    IN SplitTopics(Strip(Tail(line)))

\* The analysis has a Topics line: its topics are a non-empty list of str.
HasTopicsLine(w) ==
    /\ w.topics.k = "list"
    /\ Truthy(w.topics)
    /\ Join(w.topics).exc = "none"

\* C30: for every written record, splitting its Topics line as the
\* extractor does gives back the record's final topics, the same items with
\* the same multiplicity, also for a topic that holds a comma or has a
\* blank before or after it.
C30_TopicsRoundTrip ==
    \A k \in 1..Len(written) :
        HasTopicsLine(written[k]) =>
            TopicsReadBack(written[k].topics)
               = [i \in 1..Len(written[k].topics.v) |-> written[k].topics.v[i].v]

====
